---- MODULE Spec2Model ----
(***************************************************************************)
(* Model of the video production pipeline of ai_us_astro:                  *)
(*   src/main.py    produce_video_from_script (planner, audio phase,       *)
(*                  budget trimming, scene loop, final assembly call)      *)
(*   src/editor.py  EditorEngine.create_scene / assemble_final             *)
(*   src/editor.py  EditorEngine._render_html_scene (theme, frame loop)    *)
(*   src/agents/narrator.py  NarratorAgent.generate_audio, _fallback_gtts  *)
(*   src/main.py    main (shorts and detailed mode)                        *)
(*   src/main.py, src/editor.py  the intermediate files of the runs        *)
(*   src/main.py    process_immediate_upload; uploader.py upload_video     *)
(*   src/agents/astrologer.py  AstrologerAgent._generate_script            *)
(* Each part has its own specification over the same variables; the parts  *)
(* that a specification does not run stay idle.                            *)
(*                                                                         *)
(* Time is counted in ticks.  One video frame lasts Resolution ticks, so   *)
(* one second is fps * Resolution ticks and every duration of the source   *)
(* (0.3 s buffer, 4.0 s intro, 58 s / 600 s targets, 59 s cap) is a whole   *)
(* number of ticks.                                                        *)
(***************************************************************************)
EXTENDS Integers, Sequences, FiniteSets, TLC

VARIABLES
    script,           \* the script mapping, as a sequence of [key, val] in iteration order
    period_type,      \* "Daily" | "Monthly" | "Yearly" | "Daily_Insight"
    pc,               \* position inside produce_video_from_script; it ends in
                      \* "created", "no_scenes" (raised) or "assemble_error" (raised)
    active_sections,  \* main.py: active_sections (ordered list of keys)
    section_audios,   \* main.py: section_audios (key -> duration in ticks)
    total_duration,   \* main.py: total_duration (ticks)
    idx,              \* index of the running loop (sections or drop candidates)
    scenes,           \* main.py: scenes (list of clips, each [name, duration])
    output,           \* the output video file: [file, duration]
    planned,          \* history: active_sections as the planner produced it
    audio_before,     \* history: section_audios when the trimming phase began
    scene_result,     \* history: key -> "ok" | "failed" for every scene attempted
    narration,        \* history: the last narrator.speak call, [section, ok] where ok
                      \* is what generate_audio returned (speak discards it)
    asm_fault         \* history: the step of assemble_final that failed, or "none"

\* EditorEngine._render_html_scene (editor.py 242-421)
VARIABLES
    r_pc,             \* "idle" | "theme" | "frames" | "done"
    sign_name,        \* argument: the sign name, a sequence of characters
    theme_override,   \* argument: a colour name, "" or "None"
    duration,         \* argument: the scene duration in ticks
    subtitle_data,    \* argument: list of word timings [start, duration] in ticks
    style,            \* the resolved style [grad, glow, element], NoStyle before
    frames            \* the captured frames: [time, active_idx, call] per frame

\* NarratorAgent.generate_audio (narrator.py 77-159)
VARIABLES
    n_pc,             \* "idle" | "edge" | "after_loop" | "gtts" | "returned"
    attempt,          \* the loop variable of "for attempt in range(3)"
    audio_file,       \* the file at output_path: [by, bytes]; by = 0: absent,
                      \* by = -1: left by an earlier run, by = n: written by call n
    subtitle_file,    \* the file at subtitle_path: [by, valid], by as above
    calls,            \* history: the backend calls made, [backend, outcome] each
    returned          \* the value generate_audio returned (read at n_pc = "returned")

\* main() (main.py 312-480)
VARIABLES
    m_pc,             \* "shorts" | "yearly" | "monthly" | "insight" | "exit"
    args,             \* [type, upload]
    today,            \* [month, day]
    sign_idx,         \* SIGN_INDEX_MAP entry of the target sign
    detailed_produced,
    runs,             \* history: the production runs started, [period, outcome] each
    exit_code         \* the exit status of the process, -1 while it runs

\* the intermediate files of production runs that share one disk
\* (main.py 154, 183-184; editor.py 249-250, 351-366, 410, 416-419)
VARIABLES
    jobs,             \* the runs: [sign, period_type, date, salt] each
    next_step,        \* per run: the index of its next step, 0 once it has ended
    disk,             \* the paths that exist, each with its last writer [run, seg]
    wrote             \* history: every write made, [path, run, seg]

\* process_immediate_upload and upload_video (main.py 51-79, uploader.py 288-297);
\* times of day are minutes after midnight
VARIABLES
    u_pc,             \* position in the upload step
    now_est,          \* datetime.now(est): the Eastern time of day
    utc_offset,       \* minutes that Eastern time is behind UTC on that day
    privacy_status,   \* the privacy status handed to upload_video
    publish_at,       \* the publish time handed to upload_video (UTC), or none
    status_body       \* the status part of the request sent to the API

\* AstrologerAgent._generate_script (astrologer.py 131-191, 245-322)
VARIABLES
    g_pc,             \* "idle" | "google" | "openrouter" | "models" | "mock" | "returned"
    google_model,     \* whether self.google_model is set
    api_keys,         \* len(self.api_keys)
    current_key_index,
    models,           \* len(self.models)
    g_attempt,        \* the loop variable of _generate_with_google_ai
    model_idx,        \* position of the "for model in self.models" loop
    tried_backup,
    passes,           \* history: the passes over the model list that were begun
    switches,         \* history: the switches to a backup key in this call
    result            \* what _generate_script returned

pvars == << script, period_type, pc, active_sections, section_audios,
            total_duration, idx, scenes, output, planned, audio_before,
            scene_result, narration, asm_fault >>

rvars == << r_pc, sign_name, theme_override, duration, subtitle_data, style, frames >>

nvars == << n_pc, attempt, audio_file, subtitle_file, calls, returned >>

mvars == << m_pc, args, today, sign_idx, detailed_produced, runs, exit_code >>

\* the variables outside produce_video_from_script
fvars == << jobs, next_step, disk, wrote >>

\* the variables of the parts added last
uvars == << u_pc, now_est, utc_offset, privacy_status, publish_at, status_body >>

gvars == << g_pc, google_model, api_keys, current_key_index, models, g_attempt,
            model_idx, tried_backup, passes, switches, result >>

xvars == << fvars, uvars, gvars >>

others == << rvars, nvars, mvars, xvars >>

vars == << pvars, others >>

----------------------------------------------------------------------------
(* Units and program constants *)

\* ticks per frame (resolution of the time axis of the model)
Resolution == 2

\* editor.py: fps = 30
fps == 30

Sec == fps * Resolution

\* main.py: dur = clip.duration + 0.3
BUFFER == (3 * Sec) \div 10

\* main.py: len(str(script[section])) >= 5
MIN_LEN == 5

\* variant: the long-form target is used for every period type
TARGET_DURATION_AllLong(pt) == 600 * Sec

\* main.py: TARGET_DURATION by period type
TARGET_DURATION(pt) == IF pt = "Daily" THEN 58 * Sec ELSE 600 * Sec

\* editor.py: MAX_DURATION = 59.0
MAX_DURATION == 59 * Sec

\* main.py: duration=4.0 of the "Find Your Sign" intro scene
INTRO_DURATION == 4 * Sec

priority_order ==
    << "hook", "intro", "love", "career", "money", "health", "advice",
       "lucky_color", "lucky_number", "best_time", "key_dates", "affirmation" >>

\* variant: a section of the core content is listed as a drop candidate
drop_candidates_WithCareer ==
    << "intro", "health", "lucky_number", "lucky_color", "best_time", "money", "career" >>

drop_candidates ==
    << "intro", "health", "lucky_number", "lucky_color", "best_time", "money" >>

PeriodTypes == { "Daily", "Monthly", "Yearly", "Daily_Insight" }

Range(s) == { s[j] : j \in 1..Len(s) }

----------------------------------------------------------------------------
(* Script values.  A value is described by what the code asks of it:       *)
(* its truthiness, the length of str(value), and whether its text reads    *)
(* as a raw object ("{...}" or "[...]").                                   *)

Text     == [ truthy |-> TRUE,  slen |-> 20, raw |-> FALSE ]
Short    == [ truthy |-> TRUE,  slen |-> 4,  raw |-> FALSE ]
Empty    == [ truthy |-> FALSE, slen |-> 0,  raw |-> FALSE ]
FalseVal == [ truthy |-> FALSE, slen |-> 5,  raw |-> FALSE ]
Barely   == [ truthy |-> TRUE,  slen |-> MIN_LEN, raw |-> FALSE ]
RawObj   == [ truthy |-> TRUE,  slen |-> 30, raw |-> TRUE ]

Keys(scr) == [ j \in 1..Len(scr) |-> scr[j].key ]

HasKey(scr, k) == \E j \in 1..Len(scr) : scr[j].key = k

Lookup(scr, k) == scr[CHOOSE j \in 1..Len(scr) : scr[j].key = k].val


----------------------------------------------------------------------------
(* SectionPlanner: main.py lines 136-146 *)

\* variant: the unlisted keys are visited before the priority list
SectionOrder_UnlistedFirst(scr) ==
    SelectSeq(Keys(scr), LAMBDA k : k \notin Range(priority_order)) \o priority_order

\* priority_order + [k for k in script.keys() if k not in priority_order]
SectionOrder(scr) ==
    priority_order \o SelectSeq(Keys(scr), LAMBDA k : k \notin Range(priority_order))

\* variant: the minimum length test is left out
Qualifies_NoLength(scr, k) ==
    /\ HasKey(scr, k)
    /\ Lookup(scr, k).truthy

\* section in script and script[section] and len(str(script[section])) >= 5
Qualifies(scr, k) ==
    /\ HasKey(scr, k)
    /\ Lookup(scr, k).truthy
    /\ Lookup(scr, k).slen >= MIN_LEN

\* variant: the script's own keys are all visited after the priority list
PlanSections_Repeated(scr) ==
    SelectSeq(priority_order \o Keys(scr),
              LAMBDA k : Qualifies(scr, k) /\ k # "metadata")

\* the loop that fills active_sections, skipping the metadata section
PlanSections(scr) ==
    SelectSeq(SectionOrder(scr), LAMBDA k : Qualifies(scr, k) /\ k # "metadata")

----------------------------------------------------------------------------
(* Phase 1 helpers: main.py lines 156-204 *)

\* lucky_color / lucky_number / best_time get a spoken prefix, so their
\* speech text never starts with "{" or "["; every other section is spoken
\* as is and is skipped when it reads as a raw object
RawSkip(section, v) ==
    /\ v.raw
    /\ section \notin { "lucky_color", "lucky_number", "best_time" }

\* raw lengths of the synthesized audio clips (clip.duration), in ticks
ClipLengths == { 20 * Sec - BUFFER, 300 * Sec - BUFFER + 1 }

\* the lengths tried for a section: the hook is also tried with a narration
\* that lasts 36 s with its buffer
ClipLengthsOf(section) ==
    IF section = "hook" THEN ClipLengths \cup { 36 * Sec - BUFFER } ELSE ClipLengths

AddAudio(audios, section, dur) ==
    [ k \in DOMAIN audios \cup { section } |->
        IF k = section THEN dur ELSE audios[k] ]

----------------------------------------------------------------------------
(* DurationBudgeter: main.py lines 208-232 *)

\* list.remove(x): removes the first occurrence of x
RemoveFirst(seq, x) ==
    LET first == CHOOSE j \in 1..Len(seq) :
                    seq[j] = x /\ \A m \in 1..(j - 1) : seq[m] # x
    IN  [ m \in 1..(Len(seq) - 1) |-> IF m < first THEN seq[m] ELSE seq[m + 1] ]

\* body of "for candidate in drop_candidates" once the break test has passed;
\* st = [active, audios, total]
TrimBody(candidate, st) ==
    IF candidate \in DOMAIN st.audios
    THEN [ active |-> IF candidate \in Range(st.active)
                      THEN RemoveFirst(st.active, candidate)
                      ELSE st.active,
           audios |-> [ k \in DOMAIN st.audios \ { candidate } |-> st.audios[k] ],
           total  |-> st.total - st.audios[candidate] ]
    ELSE st

\* the loop over drop_candidates from position c on
RECURSIVE TrimLoop(_, _, _)
TrimLoop(c, st, target) ==
    IF c > Len(drop_candidates) \/ st.total <= target
    THEN st
    ELSE TrimLoop(c + 1, TrimBody(drop_candidates[c], st), target)

\* the whole trimming phase: "if total_duration > TARGET_DURATION: ..."
TrimPhase(st, target) ==
    IF st.total > target THEN TrimLoop(1, st, target) ELSE st

----------------------------------------------------------------------------
(* Scenes and assembly: editor.py create_scene / assemble_final *)

\* total_frames = int(duration * fps); ImageSequenceClip(frames, fps=30);
\* a render that captured no frame returns None (duration 0 stands for None)
ClipDuration(dur) == (dur \div Resolution) * Resolution

NullScene == [ name |-> "None", duration |-> 0 ]

RECURSIVE SumDurations(_)
SumDurations(clips) ==
    IF clips = << >> THEN 0
    ELSE clips[1].duration + SumDurations(Tail(clips))

\* variant: the cap is not applied
CapDuration_Uncapped(d) == d

\* the duration cap of assemble_final
CapDuration(d) == IF d > MAX_DURATION THEN MAX_DURATION ELSE d

\* assemble_final(scenes, ...): what it leaves at output_path when no step raises
assemble_final(scn) ==
    LET real == SelectSeq(scn, LAMBDA s : s # NullScene)
    IN  IF scn = << >> \/ real = << >>
        THEN [ file |-> "absent", duration |-> 0 ]
        ELSE [ file |-> "complete", duration |-> CapDuration(SumDurations(real)) ]

----------------------------------------------------------------------------
(* EditorEngine._render_html_scene: sign key, theme and frame loop *)

UPPER ==
    << "A", "B", "C", "D", "E", "F", "G", "H", "I", "J", "K", "L", "M",
       "N", "O", "P", "Q", "R", "S", "T", "U", "V", "W", "X", "Y", "Z" >>

LOWER ==
    << "a", "b", "c", "d", "e", "f", "g", "h", "i", "j", "k", "l", "m",
       "n", "o", "p", "q", "r", "s", "t", "u", "v", "w", "x", "y", "z" >>

SetMin(S) == CHOOSE x \in S : \A y \in S : x <= y

SetMax(S) == CHOOSE x \in S : \A y \in S : y <= x

\* str.lower()
lower(str) ==
    [ j \in 1..Len(str) |->
        IF \E u \in 1..Len(UPPER) : UPPER[u] = str[j]
        THEN LOWER[CHOOSE u \in 1..Len(UPPER) : UPPER[u] = str[j]]
        ELSE str[j] ]

\* the outcome of an index that raises
IndexError == << "IndexError" >>

\* str.split()[0]: the first run of characters that are not blanks; a string
\* of blanks only has no such run and the index raises
first_word(str) ==
    LET filled == { j \in 1..Len(str) : str[j] # " " }
    IN  IF filled = {} THEN IndexError
        ELSE LET a == SetMin(filled)
                 blanks == { j \in a..Len(str) : str[j] = " " }
             IN  SubSeq(str, a, IF blanks = {} THEN Len(str) ELSE SetMin(blanks) - 1)

\* str.split("(")[0]: the part in front of the first "("
before_paren(str) ==
    LET parens == { j \in 1..Len(str) : str[j] = "(" }
    IN  IF parens = {} THEN str ELSE SubSeq(str, 1, SetMin(parens) - 1)

\* str.strip()
strip(str) ==
    LET filled == { j \in 1..Len(str) : str[j] # " " }
    IN  IF filled = {} THEN << >> ELSE SubSeq(str, SetMin(filled), SetMax(filled))

\* editor.py 185-188: _get_sign_key
get_sign_key(name) ==
    IF first_word(lower(name)) = IndexError THEN IndexError
    ELSE strip(before_paren(first_word(lower(name))))

SIGN_STYLES_keys ==
    { << "a", "r", "i", "e", "s" >>,
      << "l", "e", "o" >>,
      << "s", "a", "g", "i", "t", "t", "a", "r", "i", "u", "s" >>,
      << "t", "a", "u", "r", "u", "s" >>,
      << "v", "i", "r", "g", "o" >>,
      << "c", "a", "p", "r", "i", "c", "o", "r", "n" >>,
      << "g", "e", "m", "i", "n", "i" >>,
      << "l", "i", "b", "r", "a" >>,
      << "a", "q", "u", "a", "r", "i", "u", "s" >>,
      << "c", "a", "n", "c", "e", "r" >>,
      << "s", "c", "o", "r", "p", "i", "o" >>,
      << "p", "i", "s", "c", "e", "s" >> }

\* editor.py 34-102, keyed by the sign key as a sequence of characters
SIGN_STYLES ==
    [ k \in SIGN_STYLES_keys |->
        CASE k = << "a", "r", "i", "e", "s" >> ->
               [ grad |-> << "#1a0a0a", "#3d1515", "#ff6b35" >>,
                 glow |-> "#ff4500", element |-> "fire" ]
          [] k = << "l", "e", "o" >> ->
               [ grad |-> << "#1a1005", "#3d2a10", "#ffd700" >>,
                 glow |-> "#ffc107", element |-> "fire" ]
          [] k = << "s", "a", "g", "i", "t", "t", "a", "r", "i", "u", "s" >> ->
               [ grad |-> << "#1a0520", "#3d1040", "#ff8c00" >>,
                 glow |-> "#ff7043", element |-> "fire" ]
          [] k = << "t", "a", "u", "r", "u", "s" >> ->
               [ grad |-> << "#050f08", "#0d2818", "#4caf50" >>,
                 glow |-> "#66bb6a", element |-> "earth" ]
          [] k = << "v", "i", "r", "g", "o" >> ->
               [ grad |-> << "#0a1a0a", "#1a3a1a", "#8bc34a" >>,
                 glow |-> "#9ccc65", element |-> "earth" ]
          [] k = << "c", "a", "p", "r", "i", "c", "o", "r", "n" >> ->
               [ grad |-> << "#0a0a0a", "#1a1a1a", "#78909c" >>,
                 glow |-> "#90a4ae", element |-> "earth" ]
          [] k = << "g", "e", "m", "i", "n", "i" >> ->
               [ grad |-> << "#0f0a1a", "#201535", "#ffeb3b" >>,
                 glow |-> "#fff176", element |-> "air" ]
          [] k = << "l", "i", "b", "r", "a" >> ->
               [ grad |-> << "#150520", "#2a0a40", "#e1bee7" >>,
                 glow |-> "#ce93d8", element |-> "air" ]
          [] k = << "a", "q", "u", "a", "r", "i", "u", "s" >> ->
               [ grad |-> << "#050a1a", "#0a1535", "#4fc3f7" >>,
                 glow |-> "#29b6f6", element |-> "air" ]
          [] k = << "c", "a", "n", "c", "e", "r" >> ->
               [ grad |-> << "#050810", "#0a1020", "#90caf9" >>,
                 glow |-> "#64b5f6", element |-> "water" ]
          [] k = << "s", "c", "o", "r", "p", "i", "o" >> ->
               [ grad |-> << "#150508", "#2a0a10", "#ef5350" >>,
                 glow |-> "#e53935", element |-> "water" ]
          [] k = << "p", "i", "s", "c", "e", "s" >> ->
               [ grad |-> << "#051015", "#0a2030", "#80deea" >>,
                 glow |-> "#4dd0e1", element |-> "water" ]
    ]

COLOR_STYLES_keys ==
    { "red",
      "blue",
      "green",
      "yellow",
      "white",
      "black",
      "pink",
      "orange",
      "purple",
      "brown",
      "gold",
      "silver" }

\* editor.py 105-166
COLOR_STYLES ==
    [ k \in COLOR_STYLES_keys |->
        CASE k = "red" ->
               [ grad |-> << "#150505", "#2a0a0a", "#ef5350" >>,
                 glow |-> "#f44336", element |-> "fire" ]
          [] k = "blue" ->
               [ grad |-> << "#050510", "#0a0a20", "#42a5f5" >>,
                 glow |-> "#2196f3", element |-> "water" ]
          [] k = "green" ->
               [ grad |-> << "#051005", "#0a200a", "#66bb6a" >>,
                 glow |-> "#4caf50", element |-> "earth" ]
          [] k = "yellow" ->
               [ grad |-> << "#101005", "#201a0a", "#ffee58" >>,
                 glow |-> "#ffeb3b", element |-> "air" ]
          [] k = "white" ->
               [ grad |-> << "#101010", "#1a1a1a", "#e0e0e0" >>,
                 glow |-> "#ffffff", element |-> "air" ]
          [] k = "black" ->
               [ grad |-> << "#000000", "#0a0a0a", "#424242" >>,
                 glow |-> "#757575", element |-> "earth" ]
          [] k = "pink" ->
               [ grad |-> << "#150510", "#2a0a20", "#f48fb1" >>,
                 glow |-> "#ec407a", element |-> "fire" ]
          [] k = "orange" ->
               [ grad |-> << "#150a05", "#2a140a", "#ffb74d" >>,
                 glow |-> "#ff9800", element |-> "fire" ]
          [] k = "purple" ->
               [ grad |-> << "#0a0515", "#140a2a", "#ba68c8" >>,
                 glow |-> "#9c27b0", element |-> "air" ]
          [] k = "brown" ->
               [ grad |-> << "#0a0805", "#1a100a", "#8d6e63" >>,
                 glow |-> "#795548", element |-> "earth" ]
          [] k = "gold" ->
               [ grad |-> << "#151005", "#2a1a0a", "#ffd54f" >>,
                 glow |-> "#ffc107", element |-> "fire" ]
          [] k = "silver" ->
               [ grad |-> << "#080a10", "#101520", "#b0bec5" >>,
                 glow |-> "#cfd8dc", element |-> "water" ]
    ]

\* editor.py 264-269: the default cosmic purple theme
NeutralStyle ==
    [ grad |-> << "#0a0515", "#140a2a", "#9c27b0" >>,
      glow |-> "#ce93d8", element |-> "neutral" ]

\* Python truth value of the theme_override argument
Truthy(v) == v \notin { "None", "" }

\* variant: the sign's own style wins over the colour override
ResolveStyle_SignFirst(override, name) ==
    IF get_sign_key(name) \in SIGN_STYLES_keys
    THEN SIGN_STYLES[get_sign_key(name)]
    ELSE IF Truthy(override) /\ override \in COLOR_STYLES_keys
         THEN COLOR_STYLES[override]
         ELSE NeutralStyle

\* editor.py 254-269: COLOR_STYLES > SIGN_STYLES > default
ResolveStyle(override, name) ==
    IF Truthy(override) /\ override \in COLOR_STYLES_keys
    THEN COLOR_STYLES[override]
    ELSE IF get_sign_key(name) \in SIGN_STYLES_keys
         THEN SIGN_STYLES[get_sign_key(name)]
         ELSE NeutralStyle

\* variant: the frame count is rounded up
total_frames_Ceil(d) == (d + Resolution - 1) \div Resolution

\* editor.py 370-371: total_frames = int(duration * fps); a frame lasts
\* Resolution ticks, so duration * fps is d / Resolution
total_frames(d) == d \div Resolution

\* editor.py 398: end_time = sub.get('end', sub['start'] + sub.get('duration', 0.5));
\* the timings the narrator writes carry "start" and "duration" and no "end"
end_time(timing) == timing.start + timing.duration

InInterval(timing, t) == timing.start <= t /\ t < end_time(timing)

\* variant: the last matching word wins
active_idx_LastMatch(subs, t) ==
    LET hits == { j \in 1..Len(subs) : InInterval(subs[j], t) }
    IN  IF hits = {} THEN -1 ELSE SetMax(hits) - 1

\* editor.py 394-401: the index (from 0) of the first word whose interval
\* holds t, -1 when there is none or when there are no timings at all
active_idx(subs, t) ==
    LET hits == { j \in 1..Len(subs) : InInterval(subs[j], t) }
    IN  IF hits = {} THEN -1 ELSE SetMin(hits) - 1

----------------------------------------------------------------------------
(* Intermediate file paths: main.py 154, 183-184, 305, 336-338, 370-372,   *)
(* 408-410, 435-437, 460-462; editor.py 249, 303, 351-357                  *)
(* A path is a sequence of strings; a text that the code cuts or filters   *)
(* is a sequence of characters.                                            *)

DIGITS == << "0", "1", "2", "3", "4", "5", "6", "7", "8", "9" >>

Digit(k) == DIGITS[k + 1]

\* strftime %d and %m
TwoDigits(n) == << Digit(n \div 10), Digit(n % 10) >>

\* strftime %Y
FourDigits(n) ==
    << Digit(n \div 1000), Digit((n \div 100) % 10), Digit((n \div 10) % 10),
       Digit(n % 10) >>

\* strftime %B
MonthName(m) ==
    CASE m = 1 -> << "J", "a", "n", "u", "a", "r", "y" >>
      [] m = 2 -> << "F", "e", "b", "r", "u", "a", "r", "y" >>
      [] m = 3 -> << "M", "a", "r", "c", "h" >>
      [] m = 4 -> << "A", "p", "r", "i", "l" >>
      [] m = 5 -> << "M", "a", "y" >>
      [] m = 6 -> << "J", "u", "n", "e" >>
      [] m = 7 -> << "J", "u", "l", "y" >>
      [] m = 8 -> << "A", "u", "g", "u", "s", "t" >>
      [] m = 9 -> << "S", "e", "p", "t", "e", "m", "b", "e", "r" >>
      [] m = 10 -> << "O", "c", "t", "o", "b", "e", "r" >>
      [] m = 11 -> << "N", "o", "v", "e", "m", "b", "e", "r" >>
      [] m = 12 -> << "D", "e", "c", "e", "m", "b", "e", "r" >>

\* main.py 336: today.strftime("%B %d, %Y")
date_str(d) ==
    MonthName(d.month) \o << " " >> \o TwoDigits(d.day) \o << ",", " " >>
        \o FourDigits(d.year)

\* main.py 337: today.strftime("%B %Y")
month_year(d) == MonthName(d.month) \o << " " >> \o FourDigits(d.year)

\* main.py 338: today.strftime("%Y")
year_str(d) == FourDigits(d.year)

\* main.py 370, 408, 435, 460: the header of each kind of run
header_text(pt, d) ==
    CASE pt = "Daily" -> << "D", "a", "i", "l", "y", " ", "H", "o", "r", "o", "s", "c", "o", "p", "e", ":", " " >> \o date_str(d)
      [] pt = "Yearly" -> << "Y", "e", "a", "r", "l", "y", " ", "H", "o", "r", "o", "s", "c", "o", "p", "e", ":", " " >> \o year_str(d)
      [] pt = "Monthly" -> << "M", "o", "n", "t", "h", "l", "y", " ", "H", "o", "r", "o", "s", "c", "o", "p", "e", ":", " " >> \o month_year(d)
      [] pt = "Daily_Insight" -> << "C", "o", "s", "m", "i", "c", " ", "I", "n", "s", "i", "g", "h", "t", ":", " " >> \o date_str(d)

\* main.py 372, 410, 437, 462: the title suffix of each kind of run
title_suffix(pt, d) ==
    CASE pt = "Daily" ->
           << "Daily_" >> \o FourDigits(d.year) \o TwoDigits(d.month) \o TwoDigits(d.day)
      [] pt = "Yearly" -> << "Yearly_" >> \o year_str(d)
      [] pt = "Monthly" ->
           << "Monthly_" >> \o MonthName(d.month) \o << "_" >> \o FourDigits(d.year)
      [] pt = "Daily_Insight" ->
           << "Insight_" >> \o FourDigits(d.year) \o TwoDigits(d.month) \o TwoDigits(d.day)

\* main.py 240, 246: the text and the header of the intro scene
intro_text == << "Unsure of your Sign? Check the Description below!" >>

intro_header == << "F", "i", "n", "d", " ", "Y", "o", "u", "r", " ", "S", "i", "g", "n" >>

\* str.isalnum() of one character
isalnum(c) == c \in Range(UPPER) \cup Range(LOWER) \cup Range(DIGITS)

\* str.replace(c, rep) for a single character c
RECURSIVE replace_char(_, _, _)
replace_char(str, c, rep) ==
    IF str = << >> THEN << >>
    ELSE (IF Head(str) = c THEN rep ELSE << Head(str) >>)
             \o replace_char(Tail(str), c, rep)

\* editor.py 303
safe_header(header) ==
    replace_char(replace_char(header, "\"", << "&", "q", "u", "o", "t", ";" >>),
                 "'", << "&", "a", "p", "o", "s", ";" >>)

\* str[:n]
Take(str, n) == SubSeq(str, 1, IF Len(str) < n THEN Len(str) ELSE n)

\* hash(text): Python salts str hashes per process, so the value depends on
\* the process seed and the text; distinct texts are given distinct hashes
hash_of(salt, text) == << salt >> \o text

\* editor.py 351-355
safe_fname(header, salt, text) ==
    IF Len(safe_header(header)) > 10
    THEN Take(SelectSeq(safe_header(header), isalnum), 20)
    ELSE << "scene_" >> \o hash_of(salt, text)

\* editor.py 357
temp_html_path(header, salt, text) ==
    << "assets/temp/" >> \o safe_fname(header, salt, text) \o << ".html" >>

\* editor.py 249: the directory that takes the frame images of one render
frames_dir(salt, text) == << "assets/temp/frames_" >> \o hash_of(salt, text)

\* main.py 183
audio_path(suffix, section) ==
    << "assets/temp/" >> \o suffix \o << "/", section, ".mp3" >>

\* main.py 184: audio_path.replace(".mp3", ".json")
subtitle_path(path) ==
    [ j \in 1..Len(path) |-> IF path[j] = ".mp3" THEN ".json" ELSE path[j] ]

\* main.py 305: outputs/{sign.split()[0]}_{title_suffix}.mp4
output_filename(sign, suffix) ==
    << "outputs/" >> \o first_word(sign) \o << "_" >> \o suffix \o << ".mp4" >>


----------------------------------------------------------------------------
(* NarratorAgent.generate_audio: retry count and size check *)

\* narrator.py 78: for attempt in range(3)
EDGE_ATTEMPTS == 3

\* narrator.py 103: os.path.getsize(output_path) > 100
MIN_AUDIO_BYTES == 100

\* file sizes on both sides of the size check
FileSizes == { 0, MIN_AUDIO_BYTES, MIN_AUDIO_BYTES + 1 }

Exists(f) == f.by # 0

\* variant: any file that exists passes
size_ok_Any(f) == Exists(f)

\* narrator.py 103: os.path.exists(output_path) and os.path.getsize(output_path) > 100
size_ok(f) == Exists(f) /\ f.bytes > MIN_AUDIO_BYTES

\* the entry of the call history for one backend call that left file f
CallRecord(backend, raised, f, ok) ==
    [ backend |-> backend, raised |-> raised, exists |-> Exists(f),
      bytes |-> f.bytes, ok |-> ok ]

----------------------------------------------------------------------------
(* Inputs *)

\* the sub-sequence of base that keeps the positions in S
SubSeqBy(base, S) ==
    LET ixs == SelectSeq([ j \in 1..Len(base) |-> j ], LAMBDA j : j \in S)
    IN  [ m \in 1..Len(ixs) |-> base[ixs[m]] ]

\* scripts of the production runs: every selection of sections of one script
\* whose iteration order is not the priority order, each with a proper text
PipelineBase ==
    << [ key |-> "love",   val |-> Text ],
       [ key |-> "intro",  val |-> Text ],
       [ key |-> "hook",   val |-> Text ],
       [ key |-> "health", val |-> Text ],
       [ key |-> "career", val |-> Text ] >>

\* scripts with sections that the planner or the audio phase leave out
OddScripts ==
    { << [ key |-> "hook", val |-> Short ] >>,
      << [ key |-> "metadata", val |-> Text ] >>,
      << [ key |-> "hook", val |-> Empty ], [ key |-> "metadata", val |-> RawObj ] >>,
      << [ key |-> "love", val |-> RawObj ], [ key |-> "hook", val |-> Text ] >>,
      << [ key |-> "lucky_color", val |-> RawObj ], [ key |-> "money", val |-> Text ],
         [ key |-> "summary", val |-> Text ] >> }

PipelineScripts ==
    { SubSeqBy(PipelineBase, S) : S \in SUBSET (1..Len(PipelineBase)) } \cup OddScripts

\* scripts of the planner: up to MaxScriptKeys distinct keys in any iteration
\* order, every kind of value under every key
MaxScriptKeys == 3

PlannerKeys == { "love", "hook", "metadata", "summary", "notes" }

PlannerValues == { Text, Short, Empty, FalseVal, Barely }

KeyOrders(n) ==
    { ks \in UNION { [ 1..m -> PlannerKeys ] : m \in 0..n } :
        \A a, b \in 1..Len(ks) : a # b => ks[a] # ks[b] }

NoOutput == [ file |-> "absent", duration |-> 0 ]

EmptyMap == [ k \in {} |-> 0 ]

NoNarration == [ section |-> "None", ok |-> FALSE ]

InitRun ==
    /\ pc = "plan"
    /\ active_sections = << >>
    /\ section_audios = EmptyMap
    /\ total_duration = 0
    /\ idx = 1
    /\ scenes = << >>
    /\ output = NoOutput
    /\ planned = << >>
    /\ audio_before = EmptyMap
    /\ scene_result = EmptyMap
    /\ narration = NoNarration
    /\ asm_fault = "none"

\* produce_video_from_script is not running
PipelineIdle ==
    /\ script = << >>
    /\ period_type = "Daily"
    /\ pc = "idle"
    /\ active_sections = << >>
    /\ section_audios = EmptyMap
    /\ total_duration = 0
    /\ idx = 1
    /\ scenes = << >>
    /\ output = NoOutput
    /\ planned = << >>
    /\ audio_before = EmptyMap
    /\ scene_result = EmptyMap
    /\ narration = NoNarration
    /\ asm_fault = "none"

NoStyle == [ grad |-> << >>, glow |-> "", element |-> "None" ]

\* _render_html_scene is not running
RenderIdle ==
    /\ r_pc = "idle"
    /\ sign_name = << >>
    /\ theme_override = "None"
    /\ duration = 0
    /\ subtitle_data = << >>
    /\ style = NoStyle
    /\ frames = << >>

NoFile == [ by |-> 0, bytes |-> 0 ]

\* no file at subtitle_path; a file there is known by the call that wrote it
\* (-1: an earlier run) and by whether it holds complete JSON
NoSubtitle == [ by |-> 0, valid |-> FALSE ]

\* generate_audio is not running
NarratorIdle ==
    /\ n_pc = "idle"
    /\ attempt = 0
    /\ audio_file = NoFile
    /\ subtitle_file = NoSubtitle
    /\ calls = << >>
    /\ returned = FALSE

\* main() is not running
MainIdle ==
    /\ m_pc = "idle"
    /\ args = [ type |-> "None", upload |-> FALSE ]
    /\ today = [ month |-> 1, day |-> 1 ]
    /\ sign_idx = 1
    /\ detailed_produced = FALSE
    /\ runs = << >>
    /\ exit_code = -1

\* no run uses the disk
FilesIdle ==
    /\ jobs = << >>
    /\ next_step = << >>
    /\ disk = EmptyMap
    /\ wrote = {}

\* no publish time
NoPublishAt == [ set |-> FALSE, minute |-> 0 ]

NoStatus == [ privacyStatus |-> "None", publishAt |-> NoPublishAt ]

\* process_immediate_upload is not running
UploadIdle ==
    /\ u_pc = "idle"
    /\ now_est = 0
    /\ utc_offset = 0
    /\ privacy_status = "None"
    /\ publish_at = NoPublishAt
    /\ status_body = NoStatus

\* _generate_script is not running
ScriptIdle ==
    /\ g_pc = "idle"
    /\ google_model = FALSE
    /\ api_keys = 0
    /\ current_key_index = 0
    /\ models = 0
    /\ g_attempt = 0
    /\ model_idx = 0
    /\ tried_backup = FALSE
    /\ passes = 0
    /\ switches = 0
    /\ result = "None"

\* the parts added last are not running
RestIdle == FilesIdle /\ UploadIdle /\ ScriptIdle

Init ==
    /\ script \in PipelineScripts
    /\ period_type \in PeriodTypes
    /\ InitRun
    /\ RenderIdle /\ NarratorIdle /\ MainIdle /\ RestIdle

InitPlanner ==
    /\ \E ks \in KeyOrders(MaxScriptKeys) :
          \E vs \in [ 1..Len(ks) -> PlannerValues ] :
             script = [ j \in 1..Len(ks) |-> [ key |-> ks[j], val |-> vs[j] ] ]
    /\ period_type \in PeriodTypes
    /\ InitRun
    /\ RenderIdle /\ NarratorIdle /\ MainIdle /\ RestIdle

\* sign names given to the renderer: plain, upper case with an element in
\* brackets, a bracket without a blank, a leading blank, and an unknown sign
Leo == << "L", "e", "o" >>

LeoFire == << "L", "E", "O", " ", "(", "f", "i", "r", "e", ")" >>

AriesParen == << "A", "r", "i", "e", "s", "(", "f", "i", "r", "e", ")" >>

PiscesBlank == << " ", "P", "i", "s", "c", "e", "s" >>

Ophiuchus == << "O", "p", "h", "i", "u", "c", "h", "u", "s" >>

SignNames == { Leo, LeoFire, AriesParen, PiscesBlank, Ophiuchus }

\* theme_override: absent, empty, two known colours, a colour in another
\* case and an unknown colour
ThemeOverrides == { "None", "", "blue", "gold", "Blue", "teal" }

\* scene durations: 1.3 s, a duration that is not a whole number of frames,
\* and 0
RenderDurations == { (13 * Sec) \div 10, Sec \div 2 + 1, 0 }

\* word timings (w0, 0.0, 0.5), (w1, 0.5, 0.5)
AdjacentTimings ==
    << [ start |-> 0, duration |-> Sec \div 2 ],
       [ start |-> Sec \div 2, duration |-> Sec \div 2 ] >>

OverlappingTimings ==
    << [ start |-> 0, duration |-> Sec ],
       [ start |-> Sec \div 2, duration |-> Sec ] >>

GappedTimings ==
    << [ start |-> Sec \div 5, duration |-> Sec \div 5 ],
       [ start |-> Sec, duration |-> Sec \div 10 ] >>

\* subtitle_data: none (None or an empty list) or a list of timings
SubtitleInputs == { << >>, AdjacentTimings, OverlappingTimings, GappedTimings }

\* days of the month and sign indexes (SIGN_INDEX_MAP, main.py 27-31), and
\* months, January first
Days == { 1, 2 }

Months == { 1, 2 }

\* main.py 317-319: --type and --upload
ArgSets == [ type : { "shorts", "detailed" }, upload : BOOLEAN ]

\* how the body of one "try:" of main() ends: normally, or with an error of
\* the script generator, of produce_video_from_script or, with --upload, of
\* process_immediate_upload
RunOutcomes(a) ==
    { "ok", "script_error", "production_error" }
        \cup (IF a.upload THEN { "upload_error" } ELSE {})

\* how the upload step of a run ends (main.py 34-103, uploader.py 268-337):
\* it is not reached, upload_video returns True, upload_video catches an error
\* of the API and returns False, the uploader has no service and the step is
\* passed over, or an error leaves process_immediate_upload
UploadOutcomes(a, out) ==
    IF out = "ok"
    THEN (IF a.upload THEN { "uploaded", "failed", "no_auth" } ELSE { "none" })
    ELSE IF out = "upload_error" THEN { "raised" } ELSE { "none" }

\* main.py 34-103: what process_immediate_upload hands back to main(); every
\* return of it is a bare return and the result of upload_video is dropped
upload_result(up) == "None"

InitMain ==
    /\ PipelineIdle /\ RenderIdle /\ NarratorIdle /\ RestIdle
    /\ args \in ArgSets
    /\ today \in [ month : Months, day : Days ]
    /\ sign_idx \in Days
    /\ m_pc = (IF args.type = "shorts" THEN "shorts" ELSE "yearly")
    /\ detailed_produced = FALSE
    /\ runs = << >>
    /\ exit_code = -1

\* generate_audio is called with a text that is not empty (narrator.py 30);
\* the output path is free or holds the file of an earlier run
InitNarrator ==
    /\ PipelineIdle /\ RenderIdle /\ MainIdle /\ RestIdle
    /\ n_pc = "edge"
    /\ attempt = 0
    /\ audio_file \in { NoFile, [ by |-> -1, bytes |-> MIN_AUDIO_BYTES + 1 ] }
    /\ subtitle_file \in { NoSubtitle, [ by |-> -1, valid |-> TRUE ] }
    /\ calls = << >>
    /\ returned = FALSE

InitRender ==
    /\ PipelineIdle /\ NarratorIdle /\ MainIdle /\ RestIdle
    /\ r_pc = "theme"
    /\ sign_name \in SignNames
    /\ theme_override \in ThemeOverrides
    /\ duration \in RenderDurations
    /\ subtitle_data \in SubtitleInputs
    /\ style = NoStyle
    /\ frames = << >>

Aries == << "A", "r", "i", "e", "s" >>

\* the dates on which the runs start
Dates ==
    { [ year |-> 2026, month |-> 1, day |-> 26 ],
      [ year |-> 2026, month |-> 2, day |-> 27 ] }

\* the segments of a run that get a scene: the intro and the narrated sections
Segments == { "intro", "hook", "love" }

\* the steps of one run on the disk, in the order of produce_video_from_script:
\* the run's directory, the audio of every section, then the scenes
RunSteps ==
    << [ op |-> "mkdir", seg |-> "run" ],
       [ op |-> "audio", seg |-> "hook" ],
       [ op |-> "audio", seg |-> "love" ],
       [ op |-> "html", seg |-> "intro" ],
       [ op |-> "capture", seg |-> "intro" ],
       [ op |-> "html", seg |-> "hook" ],
       [ op |-> "capture", seg |-> "hook" ],
       [ op |-> "html", seg |-> "love" ],
       [ op |-> "capture", seg |-> "love" ],
       [ op |-> "end", seg |-> "run" ] >>

\* two runs on one disk: the first a Daily run for Leo, the second any run
InitFiles ==
    /\ \E j1 \in [ sign : { Leo }, period_type : { "Daily" },
                   date : { CHOOSE d \in Dates : d.month = 1 },
                   salt : { "seed_1" }, script : { "script_a" } ],
          j2 \in [ sign : { Leo, Aries }, period_type : PeriodTypes,
                   date : Dates, salt : { "seed_1", "seed_2" },
                   script : { "script_a", "script_b" } ] :
          jobs = << j1, j2 >>
    /\ next_step = << 1, 1 >>
    /\ disk = EmptyMap
    /\ wrote = {}
    /\ PipelineIdle /\ RenderIdle /\ NarratorIdle /\ MainIdle /\ UploadIdle
    /\ ScriptIdle

\* the first and the last minute of every hour of the day
NowSamples == { h * 60 + m : h \in 0..23, m \in { 0, 59 } }

\* America/New_York is five hours behind UTC in winter and four in summer
UtcOffsets == { 300, 240 }

\* main.py 66: random.randint(0, 45)
MaxDelay == 45

\* the upload step starts at any time of the day
InitUpload ==
    /\ PipelineIdle /\ RenderIdle /\ NarratorIdle /\ MainIdle /\ FilesIdle
    /\ ScriptIdle
    /\ u_pc = "schedule"
    /\ now_est \in NowSamples
    /\ utc_offset \in UtcOffsets
    /\ privacy_status = "None"
    /\ publish_at = NoPublishAt
    /\ status_body = NoStatus

\* astrologer.py 84-100: one primary and up to two backup OpenRouter keys
MaxKeys == 3

\* the longest model list tried
MaxModels == 2

\* astrologer.py 140: max_retries = 3
max_retries == 3

\* what json.loads makes of a reply that parses: an object with sections, an
\* empty object, null, or a list
JsonValues == { "object", "empty_object", "null", "list" }

\* the truth value Python gives to a parsed reply
json_truthy(v) == v \in { "object", "list" }

\* the agent as __init__ and earlier calls left it (astrologer.py 103-121): at
\* least one provider is configured, the model list may be empty, and earlier
\* calls may have moved on to a backup key
InitScript ==
    /\ PipelineIdle /\ RenderIdle /\ NarratorIdle /\ MainIdle /\ FilesIdle
    /\ UploadIdle
    /\ g_pc = "google"
    /\ google_model \in BOOLEAN
    /\ api_keys \in 0..MaxKeys
    /\ google_model \/ api_keys > 0
    /\ current_key_index \in 0..(IF api_keys = 0 THEN 0 ELSE api_keys - 1)
    /\ models \in 0..(IF api_keys = 0 THEN 0 ELSE MaxModels)
    /\ g_attempt = 1
    /\ model_idx = 0
    /\ tried_backup = FALSE
    /\ passes = 0
    /\ switches = 0
    /\ result = "None"

----------------------------------------------------------------------------
(* produce_video_from_script, step by step *)

\* main.py 136-146
Plan ==
    /\ pc = "plan"
    /\ active_sections' = PlanSections(script)
    /\ planned' = PlanSections(script)
    /\ idx' = 1
    /\ pc' = "audio"
    /\ UNCHANGED << others, narration, asm_fault, script, period_type, section_audios, total_duration, scenes,
                    output, audio_before, scene_result >>

InAudioLoop == pc = "audio" /\ idx <= Len(active_sections)

AudioUnchanged ==
    UNCHANGED << others, asm_fault, script, period_type, pc, active_sections, scenes, output,
                 planned, audio_before, scene_result >>

\* main.py 177-181: the section reads as a raw object, "continue"
AudioSkipRaw ==
    /\ InAudioLoop
    /\ RawSkip(active_sections[idx], Lookup(script, active_sections[idx]))
    /\ idx' = idx + 1
    /\ UNCHANGED << section_audios, total_duration, narration >>
    /\ AudioUnchanged

\* main.py 186-200: the narrator left an audio file and it was measured.
\* narrator.speak (narrator.py 161-163) returns nothing, so the file is all
\* the caller sees: generate_audio may have returned True, or False with the
\* file the failed gTTS save left behind (narrator.py 127, 157-159)
AudioMeasured ==
    /\ InAudioLoop
    /\ ~ RawSkip(active_sections[idx], Lookup(script, active_sections[idx]))
    /\ \E ok \in BOOLEAN : narration' = [ section |-> active_sections[idx], ok |-> ok ]
    /\ \E len \in ClipLengthsOf(active_sections[idx]) :
         /\ section_audios' = AddAudio(section_audios, active_sections[idx], len + BUFFER)
         /\ total_duration' = total_duration + (len + BUFFER)
    /\ idx' = idx + 1
    /\ AudioUnchanged

\* main.py 203-204: no audio file after narrator.speak
AudioMissing ==
    /\ InAudioLoop
    /\ ~ RawSkip(active_sections[idx], Lookup(script, active_sections[idx]))
    /\ narration' = [ section |-> active_sections[idx], ok |-> FALSE ]
    /\ idx' = idx + 1
    /\ UNCHANGED << section_audios, total_duration >>
    /\ AudioUnchanged

\* main.py 201-202: AudioFileClip(audio_path) raised while opening or reading
\* the file (clip.close(), which only releases the reader, is taken not to
\* raise, so an entry in section_audios is always counted in total_duration)
AudioReadError ==
    /\ InAudioLoop
    /\ ~ RawSkip(active_sections[idx], Lookup(script, active_sections[idx]))
    /\ \E ok \in BOOLEAN : narration' = [ section |-> active_sections[idx], ok |-> ok ]
    /\ idx' = idx + 1
    /\ UNCHANGED << section_audios, total_duration >>
    /\ AudioUnchanged

\* end of the phase 1 loop
AudioDone ==
    /\ pc = "audio"
    /\ idx > Len(active_sections)
    /\ audio_before' = section_audios
    /\ pc' = "trim"
    /\ UNCHANGED << others, narration, asm_fault, script, period_type, active_sections, section_audios,
                    total_duration, idx, scenes, output, planned, scene_result >>

TrimState == [ active |-> active_sections, audios |-> section_audios,
               total |-> total_duration ]

\* main.py 214: if total_duration > TARGET_DURATION
TrimStart ==
    /\ pc = "trim"
    /\ IF total_duration > TARGET_DURATION(period_type)
       THEN pc' = "trimloop" /\ idx' = 1
       ELSE pc' = "intro" /\ idx' = idx
    /\ UNCHANGED << others, narration, asm_fault, script, period_type, active_sections, section_audios,
                    total_duration, scenes, output, planned, audio_before,
                    scene_result >>

\* variant: the loop is left after the first candidate it drops
TrimStep_StopAfterDrop ==
    /\ pc = "trimloop"
    /\ idx <= Len(drop_candidates)
    /\ IF total_duration <= TARGET_DURATION(period_type)
       THEN /\ pc' = "intro"
            /\ UNCHANGED << active_sections, section_audios, total_duration, idx >>
       ELSE LET st == TrimBody(drop_candidates[idx], TrimState)
            IN  /\ active_sections' = st.active
                /\ section_audios' = st.audios
                /\ total_duration' = st.total
                /\ idx' = idx + 1
                /\ pc' = IF st.total # total_duration THEN "intro" ELSE pc
    /\ UNCHANGED << others, narration, asm_fault, script, period_type, scenes, output, planned, audio_before,
                    scene_result >>

\* variant: the running total is not tested again inside the loop
TrimStep_NoRecheck ==
    /\ pc = "trimloop"
    /\ idx <= Len(drop_candidates)
    /\ LET st == TrimBody(drop_candidates[idx], TrimState)
       IN  /\ active_sections' = st.active
           /\ section_audios' = st.audios
           /\ total_duration' = st.total
           /\ idx' = idx + 1
           /\ pc' = pc
    /\ UNCHANGED << others, narration, asm_fault, script, period_type, scenes, output, planned, audio_before,
                    scene_result >>

\* main.py 220-230: one iteration of "for candidate in drop_candidates"
TrimStep ==
    /\ pc = "trimloop"
    /\ idx <= Len(drop_candidates)
    /\ IF total_duration <= TARGET_DURATION(period_type)
       THEN /\ pc' = "intro"
            /\ UNCHANGED << active_sections, section_audios, total_duration, idx >>
       ELSE LET st == TrimBody(drop_candidates[idx], TrimState)
            IN  /\ active_sections' = st.active
                /\ section_audios' = st.audios
                /\ total_duration' = st.total
                /\ idx' = idx + 1
                /\ pc' = pc
    /\ UNCHANGED << others, narration, asm_fault, script, period_type, scenes, output, planned, audio_before,
                    scene_result >>

\* the drop candidates are exhausted
TrimEnd ==
    /\ pc = "trimloop"
    /\ idx > Len(drop_candidates)
    /\ pc' = "intro"
    /\ UNCHANGED << others, narration, asm_fault, script, period_type, active_sections, section_audios,
                    total_duration, idx, scenes, output, planned, audio_before,
                    scene_result >>

\* main.py 236-251: the "Find Your Sign" intro scene rendered and was appended
IntroSceneOk ==
    /\ pc = "intro"
    /\ ClipDuration(INTRO_DURATION) > 0
    /\ scenes' = Append(scenes, [ name |-> "find_your_sign",
                                  duration |-> ClipDuration(INTRO_DURATION) ])
    /\ idx' = 1
    /\ pc' = "scenes"
    /\ UNCHANGED << others, narration, asm_fault, script, period_type, active_sections, section_audios,
                    total_duration, output, planned, audio_before, scene_result >>

\* main.py 249-253: create_scene returned None (or raised) for the intro scene
IntroSceneFail ==
    /\ pc = "intro"
    /\ idx' = 1
    /\ pc' = "scenes"
    /\ UNCHANGED << others, narration, asm_fault, script, period_type, active_sections, section_audios,
                    total_duration, scenes, output, planned, audio_before,
                    scene_result >>

InSceneLoop == pc = "scenes" /\ idx <= Len(active_sections)

SceneUnchanged ==
    UNCHANGED << others, narration, asm_fault, script, period_type, pc, active_sections, section_audios,
                 total_duration, output, planned, audio_before >>

\* main.py 256-257: the section has no audio entry, "continue"
SceneNoAudio ==
    /\ InSceneLoop
    /\ active_sections[idx] \notin DOMAIN section_audios
    /\ idx' = idx + 1
    /\ UNCHANGED << scenes, scene_result >>
    /\ SceneUnchanged

\* variant: the new scene is put in front of the list
SceneReady_Prepend ==
    /\ InSceneLoop
    /\ active_sections[idx] \in DOMAIN section_audios
    /\ ClipDuration(section_audios[active_sections[idx]]) > 0
    /\ scenes' = << [ name |-> active_sections[idx],
                      duration |-> ClipDuration(section_audios[active_sections[idx]]) ] >>
                   \o scenes
    /\ scene_result' = AddAudio(scene_result, active_sections[idx], "ok")
    /\ idx' = idx + 1
    /\ SceneUnchanged

\* main.py 277-293: the scene rendered and its audio was attached
SceneReady ==
    /\ InSceneLoop
    /\ active_sections[idx] \in DOMAIN section_audios
    /\ ClipDuration(section_audios[active_sections[idx]]) > 0
    /\ scenes' = Append(scenes,
                   [ name |-> active_sections[idx],
                     duration |-> ClipDuration(section_audios[active_sections[idx]]) ])
    /\ scene_result' = AddAudio(scene_result, active_sections[idx], "ok")
    /\ idx' = idx + 1
    /\ SceneUnchanged

\* variant: a failed render ends the run instead of dropping the scene
SceneRenderFail_Aborts ==
    /\ InSceneLoop
    /\ active_sections[idx] \in DOMAIN section_audios
    /\ scene_result' = AddAudio(scene_result, active_sections[idx], "failed")
    /\ pc' = "no_scenes"
    /\ UNCHANGED << others, narration, asm_fault, script, period_type, active_sections, section_audios,
                    total_duration, idx, scenes, output, planned, audio_before >>

\* main.py 296-297 with editor.py 432-440: create_scene returned None
SceneRenderFail ==
    /\ InSceneLoop
    /\ active_sections[idx] \in DOMAIN section_audios
    /\ scene_result' = AddAudio(scene_result, active_sections[idx], "failed")
    /\ idx' = idx + 1
    /\ UNCHANGED scenes
    /\ SceneUnchanged

\* main.py 294-295: the clip rendered but AudioFileClip / set_audio raised
SceneAttachFail ==
    /\ InSceneLoop
    /\ active_sections[idx] \in DOMAIN section_audios
    /\ ClipDuration(section_audios[active_sections[idx]]) > 0
    /\ scene_result' = AddAudio(scene_result, active_sections[idx], "failed")
    /\ idx' = idx + 1
    /\ UNCHANGED scenes
    /\ SceneUnchanged

\* end of the scene loop
ScenesDone ==
    /\ pc = "scenes"
    /\ idx > Len(active_sections)
    /\ pc' = "check"
    /\ UNCHANGED << others, narration, asm_fault, script, period_type, active_sections, section_audios,
                    total_duration, idx, scenes, output, planned, audio_before,
                    scene_result >>

\* main.py 299-301: if not scenes: raise Exception("No scenes created.")
CheckScenes ==
    /\ pc = "check"
    /\ pc' = IF scenes = << >> THEN "no_scenes" ELSE "assemble"
    /\ UNCHANGED << others, narration, asm_fault, script, period_type, active_sections, section_audios,
                    total_duration, idx, scenes, output, planned, audio_before,
                    scene_result >>

\* the steps of assemble_final that can fail (editor.py 455, 458 with
\* 528-552 and 554-569, 460-475, 482-484, 487-490, 494-501)
AssembleSteps ==
    { "concat", "music_select", "music_download", "music_mix", "fade", "cap",
      "encode" }

\* the steps inside "try: ... except Exception": the download of the default
\* tracks (editor.py 561-569) and the loading and mixing of the music
\* (editor.py 459-478)
CaughtSteps == { "music_download", "music_mix" }

\* main.py 308-309 with editor.py 442-502: assemble_final returned, "CREATED"
AssembleFinal ==
    /\ pc = "assemble"
    /\ output' = assemble_final(scenes)
    /\ asm_fault' = "none"
    /\ pc' = "created"
    /\ UNCHANGED << others, narration, script, period_type, active_sections,
                    section_audios, total_duration, idx, scenes, planned,
                    audio_before, scene_result >>

\* variant: an error while the music is mixed is raised to the caller
AssembleMusicSkipped_Raises ==
    /\ pc = "assemble"
    /\ scenes # << >>
    /\ output' = [ file |-> "absent", duration |-> 0 ]
    /\ asm_fault' \in CaughtSteps
    /\ pc' = "assemble_error"
    /\ UNCHANGED << others, narration, script, period_type, active_sections,
                    section_audios, total_duration, idx, scenes, planned,
                    audio_before, scene_result >>

\* editor.py 459-478, 561-569: downloading, loading or mixing the music
\* raised; the error is logged as a warning and the video is written without
\* music, "CREATED"
AssembleMusicSkipped ==
    /\ pc = "assemble"
    /\ scenes # << >>
    /\ output' = assemble_final(scenes)
    /\ asm_fault' \in CaughtSteps
    /\ pc' = "created"
    /\ UNCHANGED << others, narration, script, period_type, active_sections,
                    section_audios, total_duration, idx, scenes, planned,
                    audio_before, scene_result >>

\* editor.py 454-501: a step of assemble_final outside the try block raised
\* (concatenation, music selection, fade, cap or encoding); the encoder may
\* have left a partial file
AssembleRaise ==
    /\ pc = "assemble"
    /\ scenes # << >>
    /\ \E step \in AssembleSteps \ CaughtSteps :
         /\ asm_fault' = step
         /\ \E f \in (IF step = "encode" THEN { "absent", "partial" } ELSE { "absent" }) :
              output' = [ file |-> f, duration |-> 0 ]
    /\ pc' = "assemble_error"
    /\ UNCHANGED << others, narration, script, period_type, active_sections,
                    section_audios, total_duration, idx, scenes, planned,
                    audio_before, scene_result >>

Next ==
    \/ Plan
    \/ AudioSkipRaw
    \/ AudioMeasured
    \/ AudioMissing
    \/ AudioReadError
    \/ AudioDone
    \/ TrimStart
    \/ TrimStep
    \/ TrimEnd
    \/ IntroSceneOk
    \/ IntroSceneFail
    \/ SceneNoAudio
    \/ SceneReady
    \/ SceneRenderFail
    \/ SceneAttachFail
    \/ ScenesDone
    \/ CheckScenes
    \/ AssembleFinal
    \/ AssembleMusicSkipped
    \/ AssembleRaise

Spec == Init /\ [][Next]_vars

\* the planner alone, over the planner's scripts
NextPlanner == Plan

SpecPlanner == InitPlanner /\ [][NextPlanner]_vars

----------------------------------------------------------------------------
(* EditorEngine._render_html_scene and create_scene, step by step *)

\* editor.py 250-273: the style is resolved; _get_sign_key raises on a blank
\* sign name and create_scene turns the error into None
ResolveTheme ==
    /\ r_pc = "theme"
    /\ IF get_sign_key(sign_name) = IndexError
       THEN r_pc' = "failed" /\ style' = style
       ELSE r_pc' = "frames" /\ style' = ResolveStyle(theme_override, sign_name)
    /\ UNCHANGED << pvars, nvars, mvars, xvars, sign_name, theme_override, duration,
                    subtitle_data, frames >>

\* editor.py 391-412: one iteration of "for i in range(total_frames)":
\* highlight call, seek to i / fps, screenshot
CaptureFrame ==
    /\ r_pc = "frames"
    /\ Len(frames) < total_frames(duration)
    /\ LET i == Len(frames)
           current_time == i * Resolution
           active == active_idx(subtitle_data, current_time)
       IN  frames' = Append(frames, [ i |-> i,
                                      seek |-> current_time,
                                      active_idx |-> active,
                                      setWordActive |-> active # -1 ])
    /\ UNCHANGED << pvars, nvars, mvars, xvars, r_pc, sign_name, theme_override,
                    duration, subtitle_data, style >>

\* editor.py 293-298, 356-361, 373-417: the template could not be read, the
\* page file could not be written or the browser raised; create_scene
\* (editor.py 438-440) turns all of these into None
RenderError ==
    /\ r_pc = "frames"
    /\ r_pc' = "failed"
    /\ UNCHANGED << pvars, nvars, mvars, xvars, sign_name, theme_override, duration,
                    subtitle_data, style, frames >>

\* editor.py 421 with 431-435: the frames are returned; an empty list makes
\* create_scene raise "No frames captured" and return None
RenderReturn ==
    /\ r_pc = "frames"
    /\ Len(frames) = total_frames(duration)
    /\ r_pc' = IF frames = << >> THEN "failed" ELSE "done"
    /\ UNCHANGED << pvars, nvars, mvars, xvars, sign_name, theme_override, duration,
                    subtitle_data, style, frames >>

NextRender ==
    \/ ResolveTheme
    \/ CaptureFrame
    \/ RenderError
    \/ RenderReturn

SpecRender == InitRender /\ [][NextRender]_vars

----------------------------------------------------------------------------
(* NarratorAgent.generate_audio and _fallback_gtts, step by step *)

InEdgeLoop == n_pc = "edge" /\ attempt < EDGE_ATTEMPTS

NarratorUnchanged == UNCHANGED << pvars, rvars, mvars, xvars >>

\* narrator.py 79-91, 111-113: edge_tts.Communicate or open() raised; the
\* file at output_path is as it was
EdgeRaisesBeforeOpen ==
    /\ InEdgeLoop
    /\ calls' = Append(calls, CallRecord("edge", TRUE, audio_file, FALSE))
    /\ attempt' = attempt + 1
    /\ UNCHANGED << n_pc, audio_file, subtitle_file, returned >>
    /\ NarratorUnchanged

\* narrator.py 91-101, 111-113: the file was opened for writing and the
\* stream raised after any number of chunks
EdgeRaisesInStream ==
    /\ InEdgeLoop
    /\ \E b \in FileSizes :
         LET f == [ by |-> Len(calls) + 1, bytes |-> b ]
         IN  /\ audio_file' = f
             /\ calls' = Append(calls, CallRecord("edge", TRUE, f, FALSE))
    /\ attempt' = attempt + 1
    /\ UNCHANGED << n_pc, subtitle_file, returned >>
    /\ NarratorUnchanged

\* variant: a successful attempt does not leave the loop
EdgeStreamed_KeepsTrying ==
    /\ InEdgeLoop
    /\ \E b \in FileSizes :
         LET f == [ by |-> Len(calls) + 1, bytes |-> b ]
         IN  /\ audio_file' = f
             /\ calls' = Append(calls, CallRecord("edge", FALSE, f, size_ok(f)))
             /\ attempt' = attempt + 1
             /\ UNCHANGED << n_pc, subtitle_file, returned >>
    /\ NarratorUnchanged

\* narrator.py 91-108: the stream ended without an error; the attempt
\* returns True when the file passes the size check, after writing the
\* subtitle file if the stream held word boundaries; otherwise the loop goes
\* on with the next attempt
EdgeStreamed ==
    /\ InEdgeLoop
    /\ \E b \in FileSizes :
         LET f == [ by |-> Len(calls) + 1, bytes |-> b ]
         IN  /\ audio_file' = f
             /\ calls' = Append(calls, CallRecord("edge", FALSE, f, size_ok(f)))
             /\ IF size_ok(f)
                THEN /\ \E words \in BOOLEAN :
                          subtitle_file' =
                              IF words THEN [ by |-> Len(calls) + 1, valid |-> TRUE ]
                              ELSE subtitle_file
                     /\ returned' = TRUE
                     /\ n_pc' = "returned"
                     /\ attempt' = attempt
                ELSE /\ attempt' = attempt + 1
                     /\ UNCHANGED << n_pc, subtitle_file, returned >>
    /\ NarratorUnchanged

\* narrator.py 103-106, 111-113: the audio passed the size check but writing
\* the subtitle file raised, in open() or after it with part of the JSON
\* written; the attempt counts as failed
EdgeSubtitleError ==
    /\ InEdgeLoop
    /\ \E b \in FileSizes :
         LET f == [ by |-> Len(calls) + 1, bytes |-> b ]
         IN  /\ size_ok(f)
             /\ audio_file' = f
             /\ calls' = Append(calls, CallRecord("edge", TRUE, f, FALSE))
    /\ subtitle_file' \in { subtitle_file, [ by |-> Len(calls) + 1, valid |-> FALSE ] }
    /\ attempt' = attempt + 1
    /\ UNCHANGED << n_pc, returned >>
    /\ NarratorUnchanged

\* narrator.py 115-116: the loop is over, what is left at output_path is removed
RemoveLeftover ==
    /\ n_pc = "edge"
    /\ attempt = EDGE_ATTEMPTS
    /\ audio_file' = NoFile
    /\ n_pc' = "gtts"
    /\ UNCHANGED << attempt, subtitle_file, calls, returned >>
    /\ NarratorUnchanged

\* narrator.py 122-128, 157-159: gTTS could not be imported or built, or
\* save() raised before it created the file; False is returned
GttsRaisesBeforeSave ==
    /\ n_pc = "gtts"
    /\ calls' = Append(calls, CallRecord("gtts", TRUE, audio_file, FALSE))
    /\ returned' = FALSE
    /\ n_pc' = "returned"
    /\ UNCHANGED << attempt, audio_file, subtitle_file >>
    /\ NarratorUnchanged

\* narrator.py 128, 157-159: save() created the file and raised while
\* fetching the speech; the except branch returns False and removes nothing
GttsRaisesInSave ==
    /\ n_pc = "gtts"
    /\ \E b \in FileSizes :
         LET f == [ by |-> Len(calls) + 1, bytes |-> b ]
         IN  /\ audio_file' = f
             /\ calls' = Append(calls, CallRecord("gtts", TRUE, f, FALSE))
    /\ returned' = FALSE
    /\ n_pc' = "returned"
    /\ UNCHANGED << attempt, subtitle_file >>
    /\ NarratorUnchanged

\* narrator.py 128-155: save() wrote the file; True is returned whether the
\* pseudo-subtitles were written, could not be computed (the file at
\* subtitle_path is not touched) or broke off while being written
GttsSaved ==
    /\ n_pc = "gtts"
    /\ \E b \in FileSizes \ { 0 } :
         LET f == [ by |-> Len(calls) + 1, bytes |-> b ]
         IN  /\ audio_file' = f
             /\ calls' = Append(calls, CallRecord("gtts", FALSE, f, TRUE))
    /\ subtitle_file' \in { [ by |-> Len(calls) + 1, valid |-> TRUE ],
                            subtitle_file,
                            [ by |-> Len(calls) + 1, valid |-> FALSE ] }
    /\ returned' = TRUE
    /\ n_pc' = "returned"
    /\ UNCHANGED attempt
    /\ NarratorUnchanged

NextNarrator ==
    \/ EdgeRaisesBeforeOpen
    \/ EdgeRaisesInStream
    \/ EdgeStreamed
    \/ EdgeSubtitleError
    \/ RemoveLeftover
    \/ GttsRaisesBeforeSave
    \/ GttsRaisesInSave
    \/ GttsSaved

SpecNarrator == InitNarrator /\ [][NextNarrator]_vars

----------------------------------------------------------------------------
(* main(), one action per production run *)

MainUnchanged == UNCHANGED << pvars, rvars, nvars, xvars, args, today, sign_idx >>

\* main.py 355-397: the Daily run; any error ends the process with sys.exit(1)
ShortsRun ==
    /\ m_pc = "shorts"
    /\ \E out \in RunOutcomes(args) : \E up \in UploadOutcomes(args, out) :
         /\ runs' = Append(runs, [ period |-> "Daily", outcome |-> out,
                                   upload |-> up, told |-> upload_result(up) ])
         /\ exit_code' = (IF out = "ok" THEN 0 ELSE 1)
    /\ m_pc' = "exit"
    /\ UNCHANGED detailed_produced
    /\ MainUnchanged

\* main.py 406: it is not the sign's day of January
YearlySkipped ==
    /\ m_pc = "yearly"
    /\ ~ (today.month = 1 /\ today.day = sign_idx)
    /\ m_pc' = "monthly"
    /\ UNCHANGED << detailed_produced, runs, exit_code >>
    /\ MainUnchanged

\* main.py 406-428: the Yearly run; an error is printed and nothing else
YearlyRun ==
    /\ m_pc = "yearly"
    /\ today.month = 1 /\ today.day = sign_idx
    /\ \E out \in RunOutcomes(args) : \E up \in UploadOutcomes(args, out) :
         /\ runs' = Append(runs, [ period |-> "Yearly", outcome |-> out,
                                   upload |-> up, told |-> upload_result(up) ])
         /\ detailed_produced' = (out = "ok")
    /\ m_pc' = "monthly"
    /\ UNCHANGED exit_code
    /\ MainUnchanged

\* main.py 431: a detailed video exists or it is not the sign's day
MonthlySkipped ==
    /\ m_pc = "monthly"
    /\ ~ (~ detailed_produced /\ today.day = sign_idx)
    /\ m_pc' = "insight"
    /\ UNCHANGED << detailed_produced, runs, exit_code >>
    /\ MainUnchanged

\* main.py 431-453: the Monthly run; an error is printed and nothing else
MonthlyRun ==
    /\ m_pc = "monthly"
    /\ ~ detailed_produced /\ today.day = sign_idx
    /\ \E out \in RunOutcomes(args) : \E up \in UploadOutcomes(args, out) :
         /\ runs' = Append(runs, [ period |-> "Monthly", outcome |-> out,
                                   upload |-> up, told |-> upload_result(up) ])
         /\ detailed_produced' = (out = "ok")
    /\ m_pc' = "insight"
    /\ UNCHANGED exit_code
    /\ MainUnchanged

\* main.py 456: a detailed video exists; main() returns
InsightSkipped ==
    /\ m_pc = "insight"
    /\ detailed_produced
    /\ exit_code' = 0
    /\ m_pc' = "exit"
    /\ UNCHANGED << detailed_produced, runs >>
    /\ MainUnchanged

\* main.py 456-480: the Daily_Insight run; an error ends the process with
\* sys.exit(1)
InsightRun ==
    /\ m_pc = "insight"
    /\ ~ detailed_produced
    /\ \E out \in RunOutcomes(args) : \E up \in UploadOutcomes(args, out) :
         /\ runs' = Append(runs, [ period |-> "Daily_Insight", outcome |-> out,
                                   upload |-> up, told |-> upload_result(up) ])
         /\ exit_code' = (IF out = "ok" THEN 0 ELSE 1)
    /\ m_pc' = "exit"
    /\ UNCHANGED detailed_produced
    /\ MainUnchanged

NextMain ==
    \/ ShortsRun
    \/ YearlySkipped
    \/ YearlyRun
    \/ MonthlySkipped
    \/ MonthlyRun
    \/ InsightSkipped
    \/ InsightRun

SpecMain == InitMain /\ [][NextMain]_vars

----------------------------------------------------------------------------
(* The intermediate files of production runs, step by step *)

FilesUnchanged == UNCHANGED << pvars, rvars, nvars, mvars, uvars, gvars, jobs >>

CurrentStep(r) == RunSteps[next_step[r]]

AtStep(r, op) ==
    /\ r \in DOMAIN jobs
    /\ next_step[r] # 0
    /\ CurrentStep(r).op = op

Advance(r) == next_step' = [ next_step EXCEPT ![r] = @ + 1 ]

\* the paths written by run r for segment seg
Written(paths, r, seg) ==
    /\ disk' = [ p \in DOMAIN disk \cup paths |->
                   IF p \in paths THEN [ run |-> r, seg |-> seg ] ELSE disk[p] ]
    /\ wrote' = wrote \cup { [ path |-> p, run |-> r, seg |-> seg ] : p \in paths }

\* the text of a segment: the intro text is fixed, a section's text is the
\* script's
SegmentText(job, seg) ==
    IF seg = "intro" THEN intro_text ELSE << job.script, seg >>

\* main.py 241-248, 276-284: the header passed to create_scene
SegmentHeader(job, seg) ==
    IF seg = "intro" THEN intro_header
    ELSE header_text(job.period_type, job.date)

\* main.py 154: os.makedirs(f"assets/temp/{title_suffix}", exist_ok=True)
MakeTempDir(r) ==
    /\ AtStep(r, "mkdir")
    /\ Written({ << "assets/temp/" >> \o title_suffix(jobs[r].period_type, jobs[r].date) },
               r, "run")
    /\ Advance(r)
    /\ FilesUnchanged

\* main.py 183-188: the narrator writes the audio and the word-timing file
SynthesizeSegment(r) ==
    /\ AtStep(r, "audio")
    /\ LET path == audio_path(title_suffix(jobs[r].period_type, jobs[r].date),
                              CurrentStep(r).seg)
       IN  Written({ path, subtitle_path(path) }, r, CurrentStep(r).seg)
    /\ Advance(r)
    /\ FilesUnchanged

\* editor.py 249-250, 351-362: the frames directory and the temporary page
WriteSceneHtml(r) ==
    /\ AtStep(r, "html")
    /\ LET seg == CurrentStep(r).seg
           text == SegmentText(jobs[r], seg)
       IN  Written({ frames_dir(jobs[r].salt, text),
                     temp_html_path(SegmentHeader(jobs[r], seg), jobs[r].salt, text) },
                   r, seg)
    /\ Advance(r)
    /\ FilesUnchanged

\* editor.py 372-419: the frame loop completes and the temporary page is
\* removed (a page that is already gone is passed over)
CaptureScene(r) ==
    /\ AtStep(r, "capture")
    /\ LET seg == CurrentStep(r).seg
           text == SegmentText(jobs[r], seg)
           page == temp_html_path(SegmentHeader(jobs[r], seg), jobs[r].salt, text)
       IN  /\ disk' = [ p \in DOMAIN disk \ { page } |-> disk[p] ]
           /\ wrote' = wrote
    /\ Advance(r)
    /\ FilesUnchanged

\* editor.py 372-414, 433-435: the browser raises inside the frame loop; the
\* removal at 416-419 is not reached and the run goes on without the scene
CaptureSceneFails(r) ==
    /\ AtStep(r, "capture")
    /\ Advance(r)
    /\ UNCHANGED << disk, wrote >>
    /\ FilesUnchanged

\* main.py 300-321: the final video is assembled and the run returns its path
RunCompletes(r) ==
    /\ AtStep(r, "end")
    /\ next_step' = [ next_step EXCEPT ![r] = 0 ]
    /\ UNCHANGED << disk, wrote >>
    /\ FilesUnchanged

\* a step of the run raises and the run ends there (main.py 392-396)
RunAborts(r) ==
    /\ r \in DOMAIN jobs
    /\ next_step[r] # 0
    /\ next_step' = [ next_step EXCEPT ![r] = 0 ]
    /\ UNCHANGED << disk, wrote >>
    /\ FilesUnchanged

NextFiles ==
    \/ \E r \in DOMAIN jobs : MakeTempDir(r)
    \/ \E r \in DOMAIN jobs : SynthesizeSegment(r)
    \/ \E r \in DOMAIN jobs : WriteSceneHtml(r)
    \/ \E r \in DOMAIN jobs : CaptureScene(r)
    \/ \E r \in DOMAIN jobs : CaptureSceneFails(r)
    \/ \E r \in DOMAIN jobs : RunCompletes(r)
    \/ \E r \in DOMAIN jobs : RunAborts(r)

SpecFiles == InitFiles /\ [][NextFiles]_vars

----------------------------------------------------------------------------
(* process_immediate_upload: scheduling, and the request of upload_video *)

UploadUnchanged ==
    UNCHANGED << pvars, rvars, nvars, mvars, fvars, gvars, now_est, utc_offset >>

\* main.py 57: now_est.replace(hour=6, minute=0, second=0, microsecond=0)
target_time == 6 * 60

\* main.py 62, with the boundary at the publishing hour
cutoff_time_AtTarget == 6 * 60

\* main.py 62: now_est.replace(hour=5, minute=0, second=0, microsecond=0)
cutoff_time == 5 * 60

\* main.py 70-71: astimezone(pytz.utc).replace(tzinfo=None); the times handled
\* here stay on the same UTC day
astimezone_utc(t) == t + utc_offset

\* main.py 63-73: before the cutoff the upload is scheduled
ScheduleEarly ==
    /\ u_pc = "schedule"
    /\ now_est < cutoff_time
    /\ \E delay_minutes \in 0..MaxDelay :
          publish_at' = [ set |-> TRUE,
                          minute |-> astimezone_utc(target_time + delay_minutes) ]
    /\ privacy_status' = "private"
    /\ u_pc' = "upload"
    /\ UNCHANGED status_body
    /\ UploadUnchanged

\* main.py 74-78: from the cutoff on the upload is immediate
ScheduleLate ==
    /\ u_pc = "schedule"
    /\ ~ (now_est < cutoff_time)
    /\ privacy_status' = "public"
    /\ publish_at' = NoPublishAt
    /\ u_pc' = "upload"
    /\ UNCHANGED status_body
    /\ UploadUnchanged

\* uploader.py 288-297: the status of the request
UploadVideo ==
    /\ u_pc = "upload"
    /\ status_body' =
          IF publish_at.set
          THEN [ privacyStatus |-> "private", publishAt |-> publish_at ]
          ELSE [ privacyStatus |-> privacy_status, publishAt |-> NoPublishAt ]
    /\ u_pc' = "uploaded"
    /\ UNCHANGED << privacy_status, publish_at >>
    /\ UploadUnchanged

NextUpload ==
    \/ ScheduleEarly
    \/ ScheduleLate
    \/ UploadVideo

SpecUpload == InitUpload /\ [][NextUpload]_vars

----------------------------------------------------------------------------
(* AstrologerAgent._generate_script, one action per provider call *)

ScriptUnchanged ==
    UNCHANGED << pvars, rvars, nvars, mvars, fvars, uvars, google_model, api_keys, models >>

\* astrologer.py 252: no Google model is configured
GoogleSkipped ==
    /\ g_pc = "google"
    /\ ~ google_model
    /\ g_pc' = "openrouter"
    /\ UNCHANGED << current_key_index, g_attempt, model_idx, tried_backup, passes,
                    switches, result >>
    /\ ScriptUnchanged

\* astrologer.py 160-172, 254-256: the reply parsed; a truthy value is
\* returned, any other makes _generate_script go on with OpenRouter
GoogleParsed ==
    /\ g_pc = "google"
    /\ google_model
    /\ \E v \in JsonValues :
          IF json_truthy(v)
          THEN result' = v /\ g_pc' = "returned"
          ELSE result' = result /\ g_pc' = "openrouter"
    /\ UNCHANGED << current_key_index, g_attempt, model_idx, tried_backup, passes, switches >>
    /\ ScriptUnchanged

\* astrologer.py 174-189: the call or the parsing raised, with a rate limit
\* error or another one; below max_retries the loop goes on, at max_retries
\* None is returned
GoogleRaised ==
    /\ g_pc = "google"
    /\ google_model
    /\ IF g_attempt < max_retries
       THEN g_attempt' = g_attempt + 1 /\ g_pc' = g_pc
       ELSE g_attempt' = g_attempt /\ g_pc' = "openrouter"
    /\ UNCHANGED << current_key_index, model_idx, tried_backup, passes, switches, result >>
    /\ ScriptUnchanged

\* astrologer.py 262: there is no client or no model to try
OpenRouterSkipped ==
    /\ g_pc = "openrouter"
    /\ ~ (api_keys > 0 /\ models > 0)
    /\ g_pc' = "mock"
    /\ UNCHANGED << current_key_index, g_attempt, model_idx, tried_backup, passes,
                    switches, result >>
    /\ ScriptUnchanged

\* astrologer.py 262-267: the loop over the model list is entered
OpenRouterStart ==
    /\ g_pc = "openrouter"
    /\ api_keys > 0 /\ models > 0
    /\ tried_backup' = FALSE
    /\ model_idx' = 1
    /\ passes' = 1
    /\ g_pc' = "models"
    /\ UNCHANGED << current_key_index, g_attempt, switches, result >>
    /\ ScriptUnchanged

InModelLoop == g_pc = "models" /\ model_idx <= models

\* astrologer.py 273-299: the model answered (at once or on the plain-text
\* retry) and the reply parsed; json.loads's value is returned as it is
ModelParsed ==
    /\ InModelLoop
    /\ result' \in JsonValues
    /\ g_pc' = "returned"
    /\ UNCHANGED << current_key_index, g_attempt, model_idx, tried_backup, passes, switches >>
    /\ ScriptUnchanged

\* astrologer.py 301-312: the call or the parsing raised and no key switch
\* follows: the error is not a rate limit, or a switch was made before in this
\* call, or no backup key is left; the next model is tried
ModelRaised ==
    /\ InModelLoop
    /\ model_idx' = model_idx + 1
    /\ UNCHANGED << g_pc, current_key_index, g_attempt, tried_backup, passes, switches, result >>
    /\ ScriptUnchanged

\* astrologer.py 131-138, 306-311: a rate limit error, no switch made yet in
\* this call and a backup key left: the key is switched and the model list is
\* walked again from its start
ModelRateLimited ==
    /\ InModelLoop
    /\ ~ tried_backup
    /\ current_key_index < api_keys - 1
    /\ current_key_index' = current_key_index + 1
    /\ tried_backup' = TRUE
    /\ switches' = switches + 1
    /\ model_idx' = 1
    /\ passes' = passes + 1
    /\ UNCHANGED << g_pc, g_attempt, result >>
    /\ ScriptUnchanged

\* astrologer.py 313-314: the model list is exhausted, the loop is left
ModelsExhausted ==
    /\ g_pc = "models"
    /\ model_idx > models
    /\ g_pc' = "mock"
    /\ UNCHANGED << current_key_index, g_attempt, model_idx, tried_backup, passes,
                    switches, result >>
    /\ ScriptUnchanged

\* astrologer.py 319-322: the mock data is returned
ReturnMock ==
    /\ g_pc = "mock"
    /\ result' = "mock"
    /\ g_pc' = "returned"
    /\ UNCHANGED << current_key_index, g_attempt, model_idx, tried_backup, passes, switches >>
    /\ ScriptUnchanged

NextScript ==
    \/ GoogleSkipped
    \/ GoogleParsed
    \/ GoogleRaised
    \/ OpenRouterSkipped
    \/ OpenRouterStart
    \/ ModelParsed
    \/ ModelRaised
    \/ ModelRateLimited
    \/ ModelsExhausted
    \/ ReturnMock

SpecScript == InitScript /\ [][NextScript]_vars

----------------------------------------------------------------------------
(* Properties *)

Planned == pc # "plan"

AfterTrim == pc \in { "intro", "scenes", "check", "assemble", "created",
                      "no_scenes", "assemble_error" }

IsPriority(k) == k \in Range(priority_order)

PriorityIndex(k) == CHOOSE j \in 1..Len(priority_order) : priority_order[j] = k

ScriptIndex(k) == CHOOSE j \in 1..Len(script) : script[j].key = k

\* C1: whenever assemble_final has written the output file, the written video
\* lasts at most 59 seconds, whatever the scenes add up to and whether or not
\* the trimming reached its target
C1_OutputWithinHardCap ==
    output.file = "complete" => output.duration <= 59 * Sec

\* a written video whose scenes add up to more than 59 s after a trimming that
\* ended over its target
C1_Witness ==
    /\ pc = "created"
    /\ output.file = "complete"
    /\ SumDurations(scenes) > 59 * Sec
    /\ total_duration > TARGET_DURATION(period_type)

InTrimOrAfter == pc \in { "trim", "trimloop" } \/ AfterTrim

RECURSIVE AudioTotal(_)
AudioTotal(audios) ==
    IF DOMAIN audios = {} THEN 0
    ELSE LET k == CHOOSE x \in DOMAIN audios : TRUE
         IN  audios[k] + AudioTotal([ x \in DOMAIN audios \ { k } |-> audios[x] ])

DropNames == { "intro", "health", "lucky_number", "lucky_color", "best_time", "money" }

DropOrder == << "intro", "health", "lucky_number", "lucky_color", "best_time", "money" >>

TargetOf(pt) == IF pt = "Daily" THEN 58 * Sec ELSE 600 * Sec

\* C2: after the trimming phase the surviving segment durations add up to at
\* most the target (58 s Daily, 600 s otherwise), unless no segment of the
\* drop-candidate list survives
C2_WithinTargetOrExhausted ==
    AfterTrim =>
       \/ AudioTotal(section_audios) <= TargetOf(period_type)
       \/ DOMAIN section_audios \cap DropNames = {}

\* the trimming dropped intro, reached the target and left health in place
C2_Witness ==
    /\ pc = "intro"
    /\ "intro" \in DOMAIN audio_before
    /\ "intro" \notin DOMAIN section_audios
    /\ "health" \in DOMAIN section_audios
    /\ AudioTotal(section_audios) <= TargetOf(period_type)

\* C3: a segment that had audio before the trimming and is not a drop
\* candidate keeps its audio entry and its place in the active section list
C3_OnlyCandidatesRemoved ==
    InTrimOrAfter =>
       /\ \A k \in DOMAIN audio_before \ DropNames :
             /\ k \in DOMAIN section_audios
             /\ section_audios[k] = audio_before[k]
             /\ k \in Range(active_sections)
       /\ SelectSeq(active_sections, LAMBDA k : k \notin DropNames)
             = SelectSeq(planned, LAMBDA k : k \notin DropNames)

\* the trimming removed every candidate and the three core sections, still
\* over the target, are all in place
C3_Witness ==
    /\ AfterTrim
    /\ DOMAIN audio_before = { "hook", "love", "career", "intro", "health" }
    /\ DOMAIN section_audios = { "hook", "love", "career" }
    /\ total_duration > TargetOf(period_type)

\* C4: the trimming phase applied to its own result changes nothing (same
\* ordered list, same audio entries, same total), and the total after the
\* trimming is at most the total before it
C4_IdempotentNonIncreasing ==
    AfterTrim =>
       /\ TrimPhase(TrimState, TargetOf(period_type)) = TrimState
       /\ total_duration <= AudioTotal(audio_before)

\* a trimming that dropped one candidate, kept a later one, and ended within
\* the target
C4_Witness ==
    /\ AfterTrim
    /\ total_duration < AudioTotal(audio_before)
    /\ DOMAIN section_audios \cap DropNames # {}
    /\ DOMAIN section_audios # DOMAIN audio_before

Removed ==
    (DOMAIN section_audios \ DOMAIN section_audios')
       \cup (Range(active_sections) \ Range(active_sections'))

\* C5: a segment is removed only as the next drop candidate in the fixed
\* order, at a moment when the running total exceeds the target and every
\* earlier candidate is already gone; nothing is removed when the initial
\* total is within the target; the trimming loop always hands over to the
\* scene phase, also over budget; hook, love, career, health of 20 s each
\* against 58 s leave hook, love, career with a total of 60 s
C5_GreedyPrefix ==
    /\ [][ Removed # {} =>
             \E c \in 1..Len(DropOrder) :
                /\ Removed = { DropOrder[c] }
                /\ total_duration > TargetOf(period_type)
                /\ total_duration' = total_duration - section_audios[DropOrder[c]]
                /\ \A j \in 1..(c - 1) : DropOrder[j] \notin DOMAIN section_audios ]_vars
    /\ [][ pc = "trimloop" => pc' \in { "trimloop", "intro" } ]_vars
    /\ [] ( AfterTrim /\ AudioTotal(audio_before) <= TargetOf(period_type)
              => section_audios = audio_before /\ active_sections = planned )
    /\ [] ( /\ AfterTrim
            /\ period_type = "Daily"
            /\ planned = << "hook", "love", "career", "health" >>
            /\ audio_before = [ k \in { "hook", "love", "career", "health" } |-> 20 * Sec ]
            => /\ active_sections = << "hook", "love", "career" >>
               /\ total_duration = 60 * Sec )

\* the example run: four sections of 20 s, health dropped, the scene phase
\* entered with hook, love, career and 60 s against the 58 s target
C5_Witness ==
    /\ pc = "intro"
    /\ period_type = "Daily"
    /\ audio_before = [ k \in { "hook", "love", "career", "health" } |-> 20 * Sec ]
    /\ active_sections = << "hook", "love", "career" >>
    /\ total_duration = 60 * Sec

\* C6: the planner's active section list never holds the key "metadata" nor a
\* key whose value has a string form shorter than 5 characters
C6_NoMetadataNoShort ==
    Planned =>
       \A j \in 1..Len(active_sections) :
          /\ active_sections[j] # "metadata"
          /\ HasKey(script, active_sections[j])
          /\ Lookup(script, active_sections[j]).slen >= 5

\* the planner ran on a script with a metadata section, a value of 4
\* characters and a proper section, and kept the proper one
C6_Witness ==
    /\ Planned
    /\ Len(active_sections) = 1
    /\ HasKey(script, "metadata") /\ Lookup(script, "metadata") = Text
    /\ \E j \in 1..Len(script) : script[j].key # "metadata" /\ script[j].val = Short

\* C7: in the planner's list the priority keys stand in priority order and
\* before every unlisted key, and the unlisted keys stand in the script's
\* iteration order
C7_PlannerOrder ==
    Planned =>
       \A a, b \in 1..Len(active_sections) :
          a < b =>
             LET x == active_sections[a]
                 y == active_sections[b]
             IN  /\ IsPriority(x) /\ IsPriority(y) => PriorityIndex(x) < PriorityIndex(y)
                 /\ ~ (~ IsPriority(x) /\ IsPriority(y))
                 /\ ~ IsPriority(x) /\ ~ IsPriority(y) => ScriptIndex(x) < ScriptIndex(y)

\* the script lists two unlisted keys and then a priority key; the plan has the
\* priority key first and the unlisted keys in the script's order
C7_Witness ==
    /\ Planned
    /\ Keys(script) = << "summary", "notes", "love" >>
    /\ active_sections = << "love", "summary", "notes" >>

NoQualifying ==
    \A j \in 1..Len(script) :
       \/ script[j].key = "metadata"
       \/ ~ script[j].val.truthy
       \/ script[j].val.slen < 5

\* C8: for a script with no qualifying section the run is fatal:
\* assemble_final is never called and no output file is written
C8_EmptyPlanIsFatal ==
    NoQualifying =>
       /\ pc \notin { "assemble", "created", "assemble_error" }
       /\ output.file = "absent"

SceneNames == { scenes[j].name : j \in 1..Len(scenes) }

\* C9: when the scene of every script segment failed, the run ends with the
\* error raised for an empty scene list and no output video is written
C9_AllScenesFailedIsFatal ==
    ( /\ pc \in { "assemble", "created", "no_scenes", "assemble_error" }
      /\ DOMAIN scene_result # {}
      /\ \A k \in DOMAIN scene_result : scene_result[k] = "failed" )
    => /\ pc = "no_scenes"
       /\ output.file = "absent"

\* C10: a failed synthesis or render drops only its own segment: every
\* segment with audio that the trimming kept has had its scene attempted when
\* the assembler is called, every scene that succeeded is in the list handed
\* over, and the run raises "no scenes" only when no scene at all succeeded
C10_FailureDropsOnlyItsSegment ==
    /\ pc \in { "assemble", "created", "assemble_error" } =>
          \A k \in DOMAIN section_audios :
             /\ k \in DOMAIN scene_result
             /\ scene_result[k] = "ok" => k \in SceneNames
    /\ pc = "no_scenes" =>
          /\ scenes = << >>
          /\ \A k \in DOMAIN scene_result : scene_result[k] # "ok"

\* the assembler is called after one segment lost its audio and another its
\* scene, with the scene of a third segment in the list
C10_Witness ==
    /\ pc = "assemble"
    /\ \E k \in Range(planned) : k \notin DOMAIN audio_before
    /\ \E k \in DOMAIN scene_result : scene_result[k] = "failed"
    /\ \E k \in DOMAIN scene_result : scene_result[k] = "ok" /\ k \in SceneNames

SceneNameSeq == [ j \in 1..Len(scenes) |-> scenes[j].name ]

\* C11: the scenes of the script segments stand in the scene list in planner
\* order, after the intro scene, with trimmed and failed segments left out
C11_ScenesInPlannerOrder ==
    /\ SelectSeq(SceneNameSeq, LAMBDA n : n # "find_your_sign")
          = SelectSeq(planned, LAMBDA k : k \in SceneNames)
    /\ \A j \in 2..Len(scenes) : scenes[j].name # "find_your_sign"

\* the assembler receives hook and career, in that order, from a script that
\* lists love first; intro was trimmed and the scene of love failed
C11_Witness ==
    /\ pc = "assemble"
    /\ Keys(script) = << "love", "intro", "hook", "career" >>
    /\ planned = << "hook", "intro", "love", "career" >>
    /\ "intro" \notin DOMAIN section_audios
    /\ "love" \in DOMAIN scene_result /\ scene_result["love"] = "failed"
    /\ SceneNameSeq = << "find_your_sign", "hook", "career" >>

\* C12: the hard cap depends on the output form: a Monthly or Yearly video
\* within its 600 s target is written at its full length, not cut to 59 s
C12_LongFormNotCut ==
    ( /\ output.file = "complete"
      /\ period_type \in { "Monthly", "Yearly" }
      /\ SumDurations(scenes) <= 600 * Sec )
    => output.duration = SumDurations(scenes)

\* the words whose interval [start, start + duration) holds time t
WordsAt(t) ==
    { j \in 1..Len(subtitle_data) :
        /\ subtitle_data[j].start <= t
        /\ t < subtitle_data[j].start + subtitle_data[j].duration }

C14_CeilFrames ==
    r_pc = "done" => Len(frames) = (duration + Resolution - 1) \div Resolution

\* C14: frame i (from 0) is captured after seeking to i / 30, in increasing
\* order of i, and a finished render of a scene of d seconds holds
\* int(d * 30) frames, the product rounded down
C14_FloorFrames ==
    /\ \A f \in 1..Len(frames) :
          frames[f].i = f - 1 /\ frames[f].seek = (f - 1) * Resolution
    /\ Len(frames) * Resolution <= duration
    /\ r_pc = "done" => duration - Len(frames) * Resolution < Resolution

C14_Witness ==
    /\ r_pc = "done"
    /\ duration = Sec \div 2 + 1
    /\ Len(frames) = fps \div 2

\* the sign each sign name of the inputs stands for
SubjectOf(name) ==
    CASE name = Leo -> << "l", "e", "o" >>
      [] name = LeoFire -> << "l", "e", "o" >>
      [] name = AriesParen -> << "a", "r", "i", "e", "s" >>
      [] name = PiscesBlank -> << "p", "i", "s", "c", "e", "s" >>
      [] OTHER -> << >>

StyleResolved == r_pc \in { "frames", "done" }

\* C15: a known colour override gives its colour theme whatever the sign is;
\* with no usable override a known sign gives its sign theme; with neither
\* the neutral theme is used
C15_ThemePrecedence ==
    StyleResolved =>
        IF theme_override \in COLOR_STYLES_keys
        THEN style = COLOR_STYLES[theme_override]
        ELSE IF SubjectOf(sign_name) \in SIGN_STYLES_keys
             THEN style = SIGN_STYLES[SubjectOf(sign_name)]
             ELSE style = NeutralStyle

C15_Witness ==
    /\ StyleResolved
    /\ theme_override = "blue"
    /\ sign_name = Leo
    /\ style.glow = "#2196f3"
    /\ style # SIGN_STYLES[<< "l", "e", "o" >>]

EdgeCalls == { j \in 1..Len(calls) : calls[j].backend = "edge" }

GttsCalls == { j \in 1..Len(calls) : calls[j].backend = "gtts" }

\* C16: at most 3 primary attempts, at most one secondary call and only after
\* 3 failed primary attempts, no call after a successful one, and the file
\* left at the output path of a successful call is the one the successful
\* attempt wrote
C16_OneWinningAttempt ==
    /\ Cardinality(EdgeCalls) <= 3
    /\ Cardinality(GttsCalls) <= 1
    /\ \A j \in GttsCalls :
          /\ j = 4
          /\ \A e \in 1..3 : calls[e].backend = "edge" /\ ~ calls[e].ok
    /\ \A j \in 1..Len(calls) : calls[j].ok => j = Len(calls)
    /\ (n_pc = "returned" /\ returned) =>
          /\ calls # << >>
          /\ calls[Len(calls)].ok
          /\ audio_file.by = Len(calls)
    /\ (\E j \in 1..Len(calls) : calls[j].ok) => (n_pc = "returned" /\ returned)

C16_Witness ==
    /\ n_pc = "returned"
    /\ returned
    /\ Len(calls) = 3
    /\ calls[1].raised
    /\ ~ calls[2].raised /\ ~ calls[2].ok
    /\ calls[3].ok
    /\ audio_file = [ by |-> 3, bytes |-> 101 ]

\* a primary attempt that raised nothing and left no file of more than 100 bytes
Undersized(j) ==
    /\ calls[j].backend = "edge"
    /\ ~ calls[j].raised
    /\ (~ calls[j].exists \/ calls[j].bytes <= 100)

\* C17: a primary attempt that raises nothing but fails the size check is not
\* a success: the next call is a primary attempt if fewer than 3 were made,
\* else the secondary backend, which finds the output path cleared
C17_UndersizedIsFailure ==
    /\ \A j \in 1..Len(calls) :
          Undersized(j) =>
             /\ ~ calls[j].ok
             /\ ~ (n_pc = "returned" /\ j = Len(calls))
             /\ j < Len(calls) =>
                   calls[j + 1].backend = (IF j < 3 THEN "edge" ELSE "gtts")
    /\ n_pc = "gtts" => ~ Exists(audio_file)

C17_Witness ==
    /\ n_pc = "returned"
    /\ Len(calls) = 4
    /\ Undersized(1) /\ calls[1].bytes = 100
    /\ calls[2].backend = "edge"
    /\ Undersized(3)
    /\ calls[4].backend = "gtts"
    /\ calls[4].ok

\* C18: a segment whose synthesis ended with a negative result (both backends
\* failed) has no audio entry
C18_FailedSynthesisLeavesNoEntry ==
    ( /\ pc = "audio"
      /\ narration.section # "None"
      /\ ~ narration.ok )
    => narration.section \notin DOMAIN section_audios

\* C19 as stated: no run in which a step of assemble_final failed goes on to
\* write the output file and report it as created
C19_AnyStepFailureAborts ==
    asm_fault # "none" => (pc # "created" /\ output.file # "complete")

\* C19: a failure of concatenation, music selection, fade-out, duration cap
\* or encoding aborts the run, and no complete file is written or reported;
\* a failure while the default tracks are downloaded or the music is loaded
\* or mixed is only logged, and the video is written without music and
\* reported as created
C19_UncaughtStepFailureAborts ==
    /\ asm_fault \in { "concat", "music_select", "fade", "cap", "encode" } =>
          (pc = "assemble_error" /\ output.file # "complete")
    /\ asm_fault \in { "music_download", "music_mix" } =>
          (pc = "created" /\ output = assemble_final(scenes))
    /\ pc = "created" => asm_fault \in { "none", "music_download", "music_mix" }

C19_Witness ==
    /\ pc = "assemble_error"
    /\ asm_fault = "encode"
    /\ output.file = "partial"
    /\ Len(scenes) >= 2

\* C20: a production run that failed is the last run of the invocation, and
\* the process that held a failed run ends with a non-zero exit status
C20_FailedRunEndsProcess ==
    \A j \in 1..Len(runs) :
        runs[j].outcome # "ok" =>
            /\ j = Len(runs)
            /\ m_pc = "exit" => exit_code # 0

\* the paths that run r wrote and that still exist
LeftBehind(r) == { w.path : w \in { x \in wrote : x.run = r } } \cap DOMAIN disk

\* C21: when a production run has ended, by success or by a fatal failure,
\* none of the intermediate artifacts it created (temp directory, audio and
\* word-timing files, frame directories, temporary pages) exists any more.
C21_ArtifactsRemovedAtEnd ==
    \A r \in DOMAIN jobs : next_step[r] = 0 => LeftBehind(r) = {}

\* C22: distinct segments of one run use disjoint intermediate artifacts: no
\* path is written for two different segments of the same run.
C22_SegmentsUseDisjointPaths ==
    \A w1, w2 \in wrote :
        (/\ w1.run = w2.run
         /\ w1.path = w2.path
         /\ w1.seg \in Segments
         /\ w2.seg \in Segments) => w1.seg = w2.seg

\* the output file of a run (main.py 305)
OutputOf(job) ==
    output_filename(job.sign, title_suffix(job.period_type, job.date))

\* C23: two production runs that write different output files never use the
\* same temporary directory or the same intermediate file path.
C23_RunsUseDisjointPaths ==
    \A w1, w2 \in wrote :
        (/\ w1.run # w2.run
         /\ OutputOf(jobs[w1.run]) # OutputOf(jobs[w2.run])) => w1.path # w2.path

\* the upload step of run j failed or was passed over
UploadFailed(j) == runs[j].upload \in { "failed", "no_auth" }

\* C24: a failed or skipped upload is reported to the caller of the
\* publishing step (it is told something else than after a successful upload)
\* and shows in the outcome of the invocation (a non-zero exit status).
C24_UploadFailureIsReported ==
    \A j \in 1..Len(runs) :
        UploadFailed(j) =>
            /\ runs[j].told # upload_result("uploaded")
            /\ m_pc = "exit" => exit_code # 0

SixAmUtc == 6 * 60 + utc_offset

\* a publish time is only sent with the privacy status private
PublishTimeIsPrivate ==
    status_body.publishAt.set => status_body.privacyStatus = "private"

Occurrences(ks, k) == Cardinality({ j \in 1..Len(ks) : ks[j] = k })

\* C26: after planning, a key stands in the active section list exactly once
\* when it is a script key other than "metadata" whose value is non-empty with
\* a stringified length of at least 5, and not at all otherwise; this holds
\* for the keys of the priority list as for the others.
C26_IncludedIffQualifies ==
    pc # "plan" =>
        \A k \in PlannerKeys \cup Range(priority_order) :
            Occurrences(planned, k) =
                IF /\ k # "metadata"
                   /\ \E j \in 1..Len(script) :
                         /\ script[j].key = k
                         /\ script[j].val.truthy
                         /\ script[j].val.slen >= 5
                THEN 1 ELSE 0

\* a listed key with a value of exactly five characters and an unlisted key
\* with a long value are planned, a key with four characters is not
C26_Witness ==
    /\ pc = "audio"
    /\ script = << [ key |-> "notes", val |-> Text ],
                   [ key |-> "hook", val |-> Barely ],
                   [ key |-> "love", val |-> Short ] >>
    /\ planned = << "hook", "notes" >>

\* C27: in a Daily run whose surviving segment durations sum to at most the
\* 58-second target after budgeting, the scenes handed to the assembly last
\* no longer than 59 seconds together, so the cap cuts nothing off.
C27_BudgetedDailyFitsCap ==
    (/\ pc \in { "assemble", "created", "assemble_error" }
     /\ period_type = "Daily"
     /\ total_duration <= 58 * Sec) => SumDurations(scenes) <= 59 * Sec

\* main.py 267-273: the word timings loaded for the scene, named by the call
\* that wrote them; 0 when no file exists or the file does not parse
load_subtitles(f) == IF f.by # 0 /\ f.valid THEN f.by ELSE 0

\* C28: when the synthesis of a segment succeeded, the word timings loaded for
\* its scene were written by the call that produced the audio, or there are
\* none; they are never those of an earlier attempt or an earlier run.
C28_TimingsFromWinningAttempt ==
    (n_pc = "returned" /\ returned) =>
        load_subtitles(subtitle_file) \in { 0, audio_file.by }

\* the retries of one call are bounded: at most max_retries Google attempts,
\* at most two passes over the model list, at most one key switch
ScriptRetriesBounded ==
    /\ g_attempt <= 3
    /\ passes <= 2
    /\ switches <= 1

\* what is returned is a script: a JSON object of a provider or the mock data
ReturnsScript ==
    g_pc = "returned" => result \in { "object", "empty_object", "mock" }

\* C30: _generate_script returns a script after a bounded number of tries:
\* at most three Google attempts, at most two passes over the model list with
\* at most one switch to a backup key, and the mock data when no provider
\* gave a reply.
C30_BoundedAndReturnsScript ==
    /\ ScriptRetriesBounded
    /\ ReturnsScript

====
